---- MODULE Spec2Model ----
(***************************************************************************)
(* Model of the Keygen admin GUI's API client (lib/api with retry/backoff, *)
(* JSON:API error classification, credential store access) and of the      *)
(* AuthProvider that persists the session in localStorage.                 *)
(*                                                                         *)
(* JavaScript values are tagged records [t |-> tag, v |-> payload] so that *)
(* property access on null/undefined (a TypeError), optional chaining and  *)
(* truthiness are computed the way the runtime computes them.              *)
(***************************************************************************)
EXTENDS Integers, Sequences, FiniteSets, TLC

(* ---------------------------------------------------------------- bounds *)
\* largest numeric Retry-After value (seconds) the modelled server sends
MaxRetryAfter == 1

(* ------------------------------------------------------ program constants *)
BASE_URL == "https://api.keygen.sh/v1"
DEFAULT_BASE_URL == "https://api.keygen.sh/v1"
\* retryWithBackoff(fn, maxRetries = 3, baseDelay = 1000)
maxRetries == 3
baseDelay == 1000
\* apiFetch: `retryCount < 3`
MaxRetryCount == 3
\* apiFetch: `retryAfter ? parseInt(retryAfter, 10) * 1000 : 1000`
DefaultDelay == 1000
MsPerSecond == 1000

(* ------------------------------------------------------------- JS values *)
Null == [t |-> "null", v |-> 0]
Undefined == [t |-> "undefined", v |-> 0]
NaN == [t |-> "NaN", v |-> 0]
Str(s) == [t |-> "str", v |-> s]
Num(n) == [t |-> "num", v |-> n]
Arr(items) == [t |-> "arr", v |-> items]
\* an object is a function from its own property names to values
Obj(members) == [t |-> "obj", v |-> members]
EmptyObj == [t |-> "obj", v |-> [k \in {} |-> 0]]

IsNullish(x) == x.t \in {"null", "undefined"}

\* ToBoolean(x)
Truthy(x) ==
  CASE x.t \in {"null", "undefined", "NaN"} -> FALSE
    [] x.t = "str" -> x.v # ""
    [] x.t = "num" -> x.v # 0
    [] OTHER -> TRUE

\* x.key for a non-nullish x (a missing property reads as undefined)
Get(x, key) ==
  IF x.t = "obj" /\ key \in DOMAIN x.v THEN x.v[key] ELSE Undefined

\* x?.[0] : undefined for a nullish x, else element 0
OptFirst(x) ==
  IF IsNullish(x) THEN Undefined
  ELSE IF x.t = "arr" /\ Len(x.v) > 0 THEN x.v[1]
  ELSE Undefined

\* x?.key
OptGet(x, key) == IF IsNullish(x) THEN Undefined ELSE Get(x, key)

\* a || b
Or(a, b) == IF Truthy(a) THEN a ELSE b

(* ------------------------------------------------------------- responses *)
\* text of a response body: either it does not parse as JSON (empty or
\* malformed; response.json() rejects) or it parses to `value`
NonJsonBody == [json |-> FALSE, value |-> Undefined]
JsonBody(x) == [json |-> TRUE, value |-> x]

ErrEntry(members) == Obj(members)
ErrorDoc(entries) == Obj([errors |-> Arr(entries)])

DocDetail ==
  ErrorDoc(<<ErrEntry([title |-> Str("Unauthorized"),
                      detail |-> Str("Token is invalid"),
                      code |-> Str("TOKEN_INVALID")])>>)
DocTitleOnly == ErrorDoc(<<ErrEntry([title |-> Str("Not found")])>>)
DocPointer ==
  ErrorDoc(<<ErrEntry([title |-> Str("Unprocessable resource"),
                      detail |-> Str("is required"),
                      code |-> Str("NAME_BLANK"),
                      source |-> Obj([pointer |-> Str("/data/attributes/name")])]),
            ErrEntry([detail |-> Str("is invalid")]),
            ErrEntry([title |-> Str("Bad parameter"),
                      code |-> Str("PARAMETER_INVALID"),
                      source |-> Obj([parameter |-> Str("page")])])>>)
DocNullEntry == ErrorDoc(<<Null>>)
DocErrorsNotArray == Obj([errors |-> Str("boom")])
SuccessDoc == Obj([data |-> Str("resource"), meta |-> Obj([count |-> Num(42)])])

Bodies ==
  {NonJsonBody} \cup
  {JsonBody(x) : x \in {Null, Str("oops"), EmptyObj, DocDetail, DocTitleOnly,
                        DocPointer, DocNullEntry, DocErrorsNotArray, SuccessDoc}}

\* value of the Retry-After response header: absent, delta-seconds, or the
\* HTTP-date form
NoHeader == Null
HttpDate == [t |-> "date", v |-> 0]
Seconds(n) == [t |-> "secs", v |-> n]
RetryAfterValues == {NoHeader, HttpDate} \cup {Seconds(n) : n \in 0..MaxRetryAfter}

Statuses == {200, 204, 401, 422, 429, 500}
NoResponse == [status |-> -1, retryAfter |-> NoHeader, body |-> NonJsonBody]
\* a transport failure: fetch() rejects instead of producing a response
NetworkFailure == [status |-> 0, retryAfter |-> NoHeader, body |-> NonJsonBody]
Responses ==
  [status : Statuses \ {429}, retryAfter : {NoHeader}, body : Bodies]
  \cup [status : {429}, retryAfter : RetryAfterValues, body : {NonJsonBody}]

\* response.ok
Ok(status) == status >= 200 /\ status <= 299

\* String.prototype.replace('/data/attributes/', '') on the pointers that occur
ReplaceAttrPrefix(s) ==
  CASE s = "/data/attributes/name" -> "name"
    [] s = "/data/attributes/" -> ""
    [] OTHER -> s

\* parseInt(h, 10) of a header string
ParseInt10(h) == IF h.t = "secs" THEN Num(h.v) ELSE NaN

\* a * b of JS numbers
Times(a, n) == IF a.t = "num" THEN Num(a.v * n) ELSE NaN

\* the delay setTimeout(cb, d) really waits: NaN and negatives are 0 ms
TimeoutMs(d) == IF d.t = "num" /\ d.v > 0 THEN d.v ELSE 0

(* --------------------------------------------------------- what a call ends with *)
NoOutcome ==
  [kind |-> "none", status |-> 0, message |-> Undefined, code |-> Undefined,
   validationErrors |-> Undefined, value |-> Undefined]
Resolved(x) ==
  [kind |-> "ok", status |-> 0, message |-> Undefined, code |-> Undefined,
   validationErrors |-> Undefined, value |-> x]
\* new ApiError(message, status, code, validationErrors)
ApiError(message, status, code, validationErrors) ==
  [kind |-> "ApiError", status |-> status, message |-> message, code |-> code,
   validationErrors |-> validationErrors, value |-> Undefined]
\* a TypeError raised by reading a property of null
TypeError ==
  [kind |-> "TypeError", status |-> 0, message |-> Undefined, code |-> Undefined,
   validationErrors |-> Undefined, value |-> Undefined]
\* the SyntaxError response.json() rejects with
SyntaxError ==
  [kind |-> "SyntaxError", status |-> 0, message |-> Undefined, code |-> Undefined,
   validationErrors |-> Undefined, value |-> Undefined]
\* the rejection of fetch() itself
FetchFailed ==
  [kind |-> "FetchFailed", status |-> 0, message |-> Undefined, code |-> Undefined,
   validationErrors |-> Undefined, value |-> Undefined]

\* a catch handler that yields null instead of a fallback document
JsonOrNull(body, fallback) ==
  IF body.json THEN body.value ELSE Null

\* await response.json().catch(() => ({ errors: [{ detail: fallback }] }))
JsonOrFallback(body, fallback) ==
  IF body.json THEN body.value
  ELSE ErrorDoc(<<ErrEntry([detail |-> Str(fallback)])>>)

\* a filter that looks at source.pointer only
HasPointerOnly(err) == Truthy(OptGet(Get(err, "source"), "pointer"))

\* does  err.source?.pointer || err.source?.parameter  hold (err not nullish)
HasField(err) ==
  \/ Truthy(OptGet(Get(err, "source"), "pointer"))
  \/ Truthy(OptGet(Get(err, "source"), "parameter"))

\* one mapped entry { field, message, code }
ValidationEntry(err) ==
  LET pointer == Get(Get(err, "source"), "pointer")
      replaced == IF IsNullish(pointer) THEN Undefined
                  ELSE IF pointer.t = "str" THEN Str(ReplaceAttrPrefix(pointer.v))
                  ELSE pointer
  IN  Obj([field |-> Or(replaced, Get(Get(err, "source"), "parameter")),
           message |-> Or(Get(err, "detail"), Get(err, "title")),
           code |-> Get(err, "code")])

RECURSIVE FilterMap(_)
FilterMap(items) ==
  IF items = <<>> THEN <<>>
  ELSE IF HasField(Head(items)) THEN <<ValidationEntry(Head(items))>> \o FilterMap(Tail(items))
  ELSE FilterMap(Tail(items))

\* parseValidationErrors: [threw |-> TRUE] when a property of null/undefined
\* is read, else the list of entries
parseValidationErrors(errorData) ==
  IF IsNullish(errorData) THEN [threw |-> TRUE, list |-> Undefined]
  ELSE LET errors == Get(errorData, "errors") IN
    IF ~Truthy(errors) \/ errors.t # "arr" THEN [threw |-> FALSE, list |-> Arr(<<>>)]
    ELSE IF \E i \in 1..Len(errors.v) : IsNullish(errors.v[i])
         THEN [threw |-> TRUE, list |-> Undefined]
    ELSE [threw |-> FALSE, list |-> Arr(FilterMap(errors.v))]

\* new ApiError(errorData.errors?.[0]?.detail || fallback, status,
\*              errorData.errors?.[0]?.code, validationErrors)
ClassifiedError(errorData, fallback, status, validationErrors) ==
  IF IsNullish(errorData) THEN TypeError
  ELSE LET first == OptFirst(Get(errorData, "errors")) IN
    ApiError(Or(OptGet(first, "detail"), Str(fallback)), status,
             OptGet(first, "code"), validationErrors)

\* line 125-140: the 401 branch
Throw401(body) ==
  ClassifiedError(JsonOrFallback(body, "Authentication required"),
                  "Authentication required", 401, Undefined)

\* line 142-154: the 422 branch
Throw422(body) ==
  LET errorData == JsonOrFallback(body, "Validation failed")
      parsed == parseValidationErrors(errorData)
  IN  IF parsed.threw THEN TypeError
      ELSE ClassifiedError(errorData, "Validation failed", 422, parsed.list)

\* line 166
ThrowRateLimit ==
  ApiError(Str("Rate limit exceeded. Please try again later."), 429, Undefined, Undefined)

\* line 169-178: every other non-ok status
ThrowGeneric(status, body) ==
  ClassifiedError(JsonOrFallback(body, "An unknown error occurred"),
                  "API Error: " \o ToString(status), status, Undefined)

\* a client that parses the body before it looks at the status
SuccessParsesFirst(status, body) ==
  IF ~body.json THEN SyntaxError
  ELSE IF status = 204 THEN Resolved(EmptyObj)
  ELSE Resolved(body.value)

\* line 181-185: what apiFetch returns for an ok response
Success(status, body) ==
  IF status = 204 THEN Resolved(EmptyObj)
  ELSE IF body.json THEN Resolved(body.value)
  ELSE SyntaxError

\* line 158-159: the delay apiFetch computes for a 429
RateLimitDelay(retryAfter) ==
  IF retryAfter # NoHeader /\ retryAfter.t \in {"secs", "date"}
  THEN Times(ParseInt10(retryAfter), MsPerSecond)
  ELSE Num(DefaultDelay)

\* line 65: baseDelay * Math.pow(2, attempt)
BackoffDelay(attempt) == Num(baseDelay * 2^attempt)

(* ---------------------------------------------------------------- headers *)
\* a JS headers object: its own string keys in insertion order, with values
DefaultHeaders ==
  << <<"Content-Type", "application/vnd.api+json">>,
     <<"Accept", "application/vnd.api+json">> >>

\* headers[key] = value
SetHeader(h, key, value) ==
  IF \E i \in 1..Len(h) : h[i][1] = key
  THEN [i \in 1..Len(h) |-> IF h[i][1] = key THEN <<key, value>> ELSE h[i]]
  ELSE Append(h, <<key, value>>)

RECURSIVE SetAll(_, _)
\* Object.entries(init.headers).forEach(([key, value]) => headers[key] = value)
SetAll(h, entries) ==
  IF entries = <<>> THEN h
  ELSE SetAll(SetHeader(h, Head(entries)[1], Head(entries)[2]), Tail(entries))

\* line 103-118: defaults, then the caller's entries, then the bearer token
BuildHeaders(callerHeaders, token) ==
  LET merged == SetAll(DefaultHeaders, callerHeaders)
  IN  IF Truthy(token) THEN SetHeader(merged, "Authorization", "Bearer " \o token.v)
      ELSE merged

\* header names are case-insensitive on the wire
Lower(name) ==
  CASE name \in {"Authorization", "authorization", "AUTHORIZATION"} -> "authorization"
    [] name = "Content-Type" -> "content-type"
    [] name = "Accept" -> "accept"
    [] OTHER -> name

\* the values fetch() sends for a header name: a Headers list built from a
\* record appends every entry, so entries whose names differ only in case are
\* all sent (combined) under the one name
Wire(h, name) == SelectSeq(h, LAMBDA e : Lower(e[1]) = name)
WireValues(h, name) == [i \in 1..Len(Wire(h, name)) |-> Wire(h, name)[i][2]]

ForgedAuth == "Bearer forged"
CallerHeaderOptions ==
  { <<>>,
    << <<"Authorization", ForgedAuth>> >>,
    << <<"authorization", ForgedAuth>> >> }

(* ----------------------------------------------------------- the store *)
StoreKeys ==
  {"keygen_account_id", "keygen_admin_token", "keygen_base_url",
   "keygen_token", "keygen_account"}

\* localStorage.getItem / setItem / removeItem; setItemNowhere writes nothing
getItem(st, key) == st[key]
setItemNowhere(st, key, value) == st
setItem(st, key, value) == [st EXCEPT ![key] = Str(value)]
removeItem(st, key) == [st EXCEPT ![key] = Null]

\* a clear that also drops the account identifier
ClearAllCredentials(st) == removeItem(removeItem(st, "keygen_token"), "keygen_account")

\* line 128-130: localStorage.removeItem('keygen_token')
ClearToken(st) == removeItem(st, "keygen_token")

\* line 79-82
getAuthToken(st) == getItem(st, "keygen_token")
\* line 85-88
getAccountId(st) == getItem(st, "keygen_account")

(* ------------------------------------------------------------- the calls *)
ApiEntries == {"api.get", "api.post", "api.patch", "api.delete"}
HelperEntries ==
  {"createResource", "updateResource", "deleteResource", "fetchResource",
   "fetchResources"}

\* the HTTP method each entry point sends
Method(entry) ==
  CASE entry \in {"api.get", "fetchResource", "fetchResources"} -> "GET"
    [] entry \in {"api.post", "createResource"} -> "POST"
    [] entry \in {"api.patch", "updateResource"} -> "PATCH"
    [] OTHER -> "DELETE"

ResourceType == "licenses"
ResourceId == "lic_1"

\* a helper that addresses the collection whatever the operation
HelperEndpointCollectionOnly(entry, accountId) ==
  "/accounts/" \o accountId \o "/" \o ResourceType

\* the endpoint a helper builds from the stored account identifier
HelperEndpoint(entry, accountId) ==
  IF entry \in {"createResource", "fetchResources"}
  THEN "/accounts/" \o accountId \o "/" \o ResourceType
  ELSE "/accounts/" \o accountId \o "/" \o ResourceType \o "/" \o ResourceId

Endpoints == {"/accounts/acct_1/licenses", "tokens"}

\* line 97: endpoint.startsWith('/') ? endpoint : `/${endpoint}`
WithLeadingSlash(endpoint) ==
  IF endpoint = "tokens" THEN "/" \o endpoint ELSE endpoint

NoCall == [entry |-> "none", endpoint |-> "", headers |-> <<>>]
NoRequest == [method |-> "", base |-> "", path |-> "", headers |-> <<>>]

\* line 95-123: the request one invocation of apiFetch sends
BuildRequest(c, st) ==
  [method |-> Method(c.entry),
   base |-> BASE_URL,
   path |-> WithLeadingSlash(c.endpoint),
   headers |-> BuildHeaders(c.headers, getAuthToken(st))]

(* ----------------------------------------------------------------- state *)
VARIABLES
  store,        \* localStorage
  accountId, adminToken, baseUrl, loading,   \* AuthProvider's React state
  pathname,     \* the router's current path
  session,      \* what the last login() persisted, until a logout or a clear
  call,         \* the client call in progress
  pc,           \* "idle", "inFlight", "innerWait", "outerWait", "done", and
                \* "libInFlight" for a request of lib/api.ts
  attempt,      \* retryWithBackoff's loop variable
  retryCount,   \* apiFetch's retryCount argument
  lastError,    \* retryWithBackoff's lastError
  timer,        \* the call's latest setTimeout: its delay and the time waited
  request,      \* the last request handed to fetch()
  requests,     \* number of requests issued for this call
  resps,        \* statuses of the responses this call received (0: none)
  response,     \* the latest response this call received
  hinted,       \* some 429 so far carried a Retry-After header, while the call goes on
  removals,     \* removeItem('keygen_token') executions in this call
  bodyRead,     \* response.json() was called on the latest response
  outcome,      \* what the call settled with
  procs,        \* the calls that run at the same time, by call id
  reloads,      \* page reloads so far
  form,         \* the values of the login form that was submitted last
  isLoading,    \* LoginPage's isLoading
  formRequest,  \* the validation request of the login form
  formResponse, \* what the validation request settled with
  toast,        \* the latest toast message
  defaults,     \* useListFilter's defaultFilters option
  inlineDefaults, \* the page passes a new defaultFilters object at every render
  filters,      \* useListFilter's filters state
  debounced,    \* useDebounce's state: debouncedSearch
  debounceTimer, \* the value the pending debounce timeout will set, if any
  searchParams, \* useSearchParams(): the query of the current address
  nav,          \* the router.push in flight, if any
  seen,         \* what the last commit rendered: the effects' dependencies
  userActions,  \* setFilter and resetFilters calls so far
  lastSearch,   \* the search text the user set last, if any
  policyToDelete, \* PoliciesPage's policyToDelete
  licenseQuery, \* the license count queries of PolicyDeleteDialog, by policy id
  deletePolicy, \* the deletePolicy mutation: isPending and the ids it was given
  policy,       \* the policy PolicyEditDialog was opened with
  formData,     \* PolicyEditDialog's formData
  isSubmitting, \* PolicyEditDialog's isSubmitting
  sent,         \* the attributes of the updateResource calls so far
  edited        \* field changes since the form was loaded

authVars == <<accountId, adminToken, baseUrl, loading, pathname>>
callVars ==
  <<call, pc, attempt, retryCount, lastError, timer, request, requests, resps,
    response, hinted, removals, bodyRead, outcome>>
\* what the pages hold besides the session and the client
formVars == <<form, isLoading, formRequest, formResponse, toast>>
filterVars ==
  <<defaults, inlineDefaults, filters, debounced, debounceTimer, searchParams, nav,
    seen,
    userActions, lastSearch>>
dialogVars ==
  <<policyToDelete, licenseQuery, deletePolicy, policy, formData, isSubmitting,
    sent, edited>>
pageVars == <<reloads, formVars, filterVars, dialogVars>>
vars == <<store, session, authVars, callVars, procs, pageVars>>

NoForm == [kind |-> "none", accountId |-> "", secret |-> "", email |-> "",
           baseUrl |-> Undefined]

\* LoginPage before any submission (part_007 line 41)
FormInit ==
  /\ form = NoForm /\ isLoading = FALSE
  /\ formRequest = NoRequest /\ formResponse = NoResponse
  /\ toast = Undefined

\* FilterState with nothing chosen, and a query without parameters
FilterKeys == {"search", "status", "dateFrom", "dateTo", "page", "pageSize"}
EmptyFilters ==
  [search |-> "", status |-> "", dateFrom |-> "", dateTo |-> "", page |-> 1,
   pageSize |-> 10]
NoDefaults == [k \in FilterKeys |-> Undefined]
NoQuery == [k \in FilterKeys |-> Null]
NoNav == [pending |-> FALSE, query |-> NoQuery]
NoSnapshot ==
  [valid |-> FALSE, filters |-> EmptyFilters, debounced |-> "",
   searchParams |-> NoQuery]

\* the state of a component that is not mounted
Unmounted == "unmounted"

\* no page with a list filter is mounted
FilterIdle ==
  /\ defaults = Unmounted /\ inlineDefaults = FALSE
  /\ filters = Unmounted /\ debounced = "" /\ debounceTimer = Unmounted
  /\ searchParams = Unmounted /\ nav = Unmounted /\ seen = Unmounted
  /\ userActions = 0 /\ lastSearch = Unmounted

\* the policy ids of the list, and a query that never ran
PolicyIds == {"pol_1", "pol_2"}
IdleQuery == [status |-> "pending", fetching |-> FALSE, data |-> Undefined]
IdleMutation == [isPending |-> FALSE, calls |-> <<>>]

\* PolicyEditDialog's initial formData (PolicyEditDialog.tsx line 88-99)
InitialFormData ==
  [name |-> "", durationPreset |-> "", customDuration |-> "", maxMachines |-> "",
   maxProcesses |-> "", maxUses |-> ""]

\* the policies page with no dialog open (page.tsx line 137, 252)
DialogIdle ==
  /\ policyToDelete = Null
  /\ licenseQuery = [id \in PolicyIds |-> IdleQuery]
  /\ deletePolicy = IdleMutation
  /\ policy = Null /\ formData = InitialFormData /\ isSubmitting = FALSE
  /\ sent = <<>> /\ edited = 0

\* no dialog of the policies page is mounted
DialogUnmounted ==
  /\ policyToDelete = Unmounted /\ licenseQuery = Unmounted
  /\ deletePolicy = Unmounted
  /\ policy = Unmounted /\ formData = Unmounted /\ isSubmitting = FALSE
  /\ sent = <<>> /\ edited = 0

PageInit == reloads = 0 /\ FormInit /\ FilterIdle /\ DialogUnmounted

\* the client on its own: no page is mounted and no calls run side by side
ClientAlone ==
  /\ procs = Unmounted /\ reloads = 0
  /\ form = Unmounted /\ isLoading = FALSE
  /\ formRequest = Unmounted /\ formResponse = Unmounted /\ toast = Unmounted
  /\ FilterIdle /\ DialogUnmounted

NoSession == [account |-> "", token |-> "", url |-> ""]
NoTimer == [delay |-> 0, elapsed |-> 0]

\* the calls that are in progress at the same time
CallIds == {1, 2}
\* one call of api.*: its arguments, where it stands, the first and the latest
\* request it handed to fetch(), the statuses it received
IdleProc ==
  [call |-> NoCall, pc |-> "idle", attempt |-> 0, retryCount |-> 0,
   lastError |-> NoOutcome, first |-> NoRequest, request |-> NoRequest,
   requests |-> 0, inFlight |-> 0, resps |-> <<>>, outcome |-> NoOutcome]
IdleProcs == [c \in CallIds |-> IdleProc]

LegacyToken == "tok_client"
LegacyAccount == "acct_1"
LoginAccount == "acct_login"
LoginToken == "tok_login"
LoginUrl == "https://keygen.example/v1"

\* what localStorage may hold when the page loads
InitialStores ==
  { [k \in StoreKeys |->
       CASE k = "keygen_token" -> tk
         [] k = "keygen_account" -> ac
         [] k = "keygen_account_id" -> IF saved THEN Str(LoginAccount) ELSE Null
         [] k = "keygen_admin_token" -> IF saved THEN Str(LoginToken) ELSE Null
         [] OTHER -> IF saved THEN Str(LoginUrl) ELSE Null]
    : tk \in {Null, Str(LegacyToken)}, ac \in {Null, Str(LegacyAccount)},
      saved \in BOOLEAN }

Init ==
  /\ store \in InitialStores
  /\ accountId = Null /\ adminToken = Null /\ baseUrl = DEFAULT_BASE_URL
  /\ loading = TRUE
  /\ pathname \in {"/", "/login"}
  /\ session = NoSession
  /\ call = NoCall /\ pc = "idle" /\ attempt = 0 /\ retryCount = 0
  /\ lastError = NoOutcome /\ timer = NoTimer
  /\ request = NoRequest /\ requests = 0 /\ resps = <<>>
  /\ response = NoResponse /\ hinted = FALSE /\ removals = 0
  /\ bodyRead = FALSE
  /\ ClientAlone
  /\ outcome = NoOutcome

(* ---------------------------------------------------------- AuthProvider *)
\* auth-provider.tsx 27-40: restore the saved session on mount
MountEffect ==
  /\ loading
  /\ LET savedAccount == getItem(store, "keygen_account_id")
         savedToken == getItem(store, "keygen_admin_token")
         savedBaseUrl == getItem(store, "keygen_base_url")
     IN  IF Truthy(savedAccount) /\ Truthy(savedToken)
         THEN /\ accountId' = savedAccount
              /\ adminToken' = savedToken
              /\ baseUrl' = IF Truthy(savedBaseUrl) THEN savedBaseUrl.v ELSE baseUrl
         ELSE UNCHANGED <<accountId, adminToken, baseUrl>>
  /\ loading' = FALSE
  /\ UNCHANGED <<store, session, pathname, callVars>>
  /\ UNCHANGED <<procs, pageVars>>

\* a guard that sends an unauthenticated visitor to the start page
GuardEffectToRoot ==
  /\ ~loading
  /\ \/ /\ ~Truthy(adminToken) /\ pathname # "/login"
        /\ pathname' = IF pathname = "/" THEN "/licenses" ELSE "/"
     \/ /\ Truthy(adminToken) /\ pathname = "/login"
        /\ pathname' = "/"
  /\ UNCHANGED <<store, session, accountId, adminToken, baseUrl, loading, callVars>>
  /\ UNCHANGED <<procs, pageVars>>

\* auth-provider.tsx 42-50: the route guard
GuardEffect ==
  /\ ~loading
  /\ \/ /\ ~Truthy(adminToken) /\ pathname # "/login"
        /\ pathname' = "/login"
     \/ /\ Truthy(adminToken) /\ pathname = "/login"
        /\ pathname' = "/"
  /\ UNCHANGED <<store, session, accountId, adminToken, baseUrl, loading, callVars>>
  /\ UNCHANGED <<procs, pageVars>>

\* auth-provider.tsx 52-60
loginBody(accId, token, url) ==
  /\ store' = setItem(setItem(setItem(store, "keygen_account_id", accId),
                              "keygen_admin_token", token),
                      "keygen_base_url", url)
  /\ accountId' = Str(accId)
  /\ adminToken' = Str(token)
  /\ baseUrl' = url
  /\ pathname' = "/"
  /\ session' = [account |-> accId, token |-> token, url |-> url]

\* login() called from the login page
login(accId, token, url) ==
  /\ ~loading /\ pathname = "/login"
  /\ loginBody(accId, token, url)
  /\ UNCHANGED <<loading, callVars>>
  /\ UNCHANGED <<procs, pageVars>>

\* auth-provider.tsx 62-70
logout ==
  /\ ~loading /\ pathname # "/login"
  /\ store' = removeItem(removeItem(removeItem(store, "keygen_account_id"),
                                    "keygen_admin_token"),
                         "keygen_base_url")
  /\ accountId' = Null
  /\ adminToken' = Null
  /\ baseUrl' = DEFAULT_BASE_URL
  /\ pathname' = "/login"
  /\ session' = NoSession
  /\ UNCHANGED <<loading, callVars>>
  /\ UNCHANGED <<procs, pageVars>>

(* ------------------------------------------------------------ the client *)
ApiCalls ==
  [entry : ApiEntries, endpoint : {"/accounts/acct_1/licenses"},
   headers : CallerHeaderOptions]
  \cup [entry : {"api.post"}, endpoint : Endpoints \ {"/accounts/acct_1/licenses"},
        headers : {<<>>}]

\* fetch(url, {...init, headers}) inside one invocation of apiFetch
IssueRequest(c) ==
  /\ request' = BuildRequest(c, store)
  /\ requests' = requests + 1
  /\ pc' = "inFlight"

\* api.get / api.post / api.patch / api.delete: retryWithBackoff(() => apiFetch(...))
StartApiCall(c) ==
  /\ pc = "idle" /\ ~loading
  /\ c \in ApiCalls
  /\ call' = c
  /\ attempt' = 0 /\ retryCount' = 0
  /\ IssueRequest(c)
  /\ UNCHANGED <<store, session, authVars, lastError, timer, resps,
                 response, hinted, removals, bodyRead, outcome>>
  /\ UNCHANGED <<procs, pageVars>>

\* createResource / updateResource / deleteResource / fetchResource /
\* fetchResources up to their call of api.*
StartHelperCall(entry) ==
  /\ pc = "idle" /\ ~loading
  /\ entry \in HelperEntries
  /\ LET acc == getAccountId(store) IN
       IF ~Truthy(acc)
       THEN /\ call' = [entry |-> entry, endpoint |-> "", headers |-> <<>>]
            /\ outcome' = ApiError(Str("Account ID not found"), 400, Undefined, Undefined)
            /\ pc' = "done"
            /\ UNCHANGED <<request, requests>>
       ELSE /\ call' = [entry |-> entry, endpoint |-> HelperEndpoint(entry, acc.v),
                        headers |-> <<>>]
            /\ IssueRequest(call')
            /\ UNCHANGED outcome
  /\ attempt' = 0 /\ retryCount' = 0
  /\ UNCHANGED <<store, session, authVars, lastError, timer, resps,
                 response, hinted, removals, bodyRead>>
  /\ UNCHANGED <<procs, pageVars>>

\* what a helper makes of the value api.* resolved with
HelperResult(entry, o) ==
  IF o.kind # "ok" \/ entry \in ApiEntries THEN o
  ELSE IF entry = "deleteResource" THEN Resolved(Undefined)
  ELSE IF IsNullish(o.value) THEN TypeError
  ELSE IF entry = "fetchResources"
       THEN Resolved(Obj([data |-> Get(o.value, "data"), meta |-> Get(o.value, "meta")]))
  ELSE Resolved(Get(o.value, "data"))

\* retries after every classified error, not only after a 429
ShouldRetryAnyApiError(err, att) ==
  err.kind = "ApiError" /\ att < maxRetries

\* line 63-64: does retryWithBackoff wait and call fn again after this error
ShouldRetry(err, att) ==
  err.kind = "ApiError" /\ err.status = 429 /\ att < maxRetries

\* retryWithBackoff line 58-72, given what fn() settled with
AfterFn(result) ==
  IF result.kind = "ok"
  THEN /\ outcome' = HelperResult(call.entry, result)
       /\ pc' = "done"
       /\ timer' = NoTimer
       /\ UNCHANGED lastError
  ELSE /\ lastError' = result
       /\ IF ShouldRetry(result, attempt)
          THEN /\ timer' = [delay |-> TimeoutMs(BackoffDelay(attempt)), elapsed |-> 0]
               /\ pc' = "outerWait"
               /\ UNCHANGED outcome
          ELSE /\ outcome' = result
               /\ pc' = "done"
               /\ timer' = NoTimer

\* one retry too many: retryCount <= 3
RetryAllowedOffByOne(rc) == rc <= MaxRetryCount

\* line 161: may apiFetch wait and call itself again
RetryAllowed(rc) == rc < MaxRetryCount

\* does apiFetch call response.json(): lines 132, 144, 170 and 185, but not on
\* a 429 (line 157-167) nor on a 204 (line 181-183)
ReadsBody(r) == r # NetworkFailure /\ r.status \notin {429, 204}

\* apiFetch line 120-186 from the settling of fetch(), with the catch block of
\* retryWithBackoff around it
Respond(r) ==
  /\ pc = "inFlight"
  /\ r \in Responses \cup {NetworkFailure}
  /\ resps' = Append(resps, r.status)
  /\ IF r = NetworkFailure
     THEN /\ AfterFn(FetchFailed)
          /\ UNCHANGED <<store, session, removals>>
     ELSE IF r.status = 401 /\ retryCount = 0
     THEN /\ store' = ClearToken(store)
          /\ removals' = removals + 1
          /\ session' = NoSession
          /\ AfterFn(Throw401(r.body))
     ELSE IF r.status = 422
     THEN /\ AfterFn(Throw422(r.body))
          /\ UNCHANGED <<store, session, removals>>
     ELSE IF r.status = 429
     THEN /\ IF RetryAllowed(retryCount)
             THEN /\ timer' = [delay |-> TimeoutMs(RateLimitDelay(r.retryAfter)),
                               elapsed |-> 0]
                  /\ pc' = "innerWait"
                  /\ UNCHANGED <<lastError, outcome>>
             ELSE AfterFn(ThrowRateLimit)
          /\ UNCHANGED <<store, session, removals>>
     ELSE IF ~Ok(r.status)
     THEN /\ AfterFn(ThrowGeneric(r.status, r.body))
          /\ UNCHANGED <<store, session, removals>>
     ELSE /\ AfterFn(Success(r.status, r.body))
          /\ UNCHANGED <<store, session, removals>>
  /\ response' = r
  /\ bodyRead' = ReadsBody(r)
  /\ hinted' = IF pc' = "done" THEN FALSE
               ELSE hinted \/ (r.status = 429 /\ r.retryAfter # NoHeader)
  /\ UNCHANGED <<authVars, call, attempt, retryCount, request, requests>>
  /\ UNCHANGED <<procs, pageVars>>

\* a timeout that fires without waiting
ExpiredAtOnce(t) == t.elapsed >= 0

\* has the pending timeout run its delay
Expired(t) == t.elapsed >= t.delay

\* time passes while a backoff timeout is pending (every delay that occurs
\* is a whole number of seconds)
Tick ==
  /\ pc \in {"innerWait", "outerWait"}
  /\ ~Expired(timer)
  /\ timer' = [timer EXCEPT !.elapsed = @ + MsPerSecond]
  /\ UNCHANGED <<store, session, authVars, call, pc, attempt, retryCount, lastError,
                 request, requests, resps, response, hinted, removals, bodyRead,
                 outcome>>
  /\ UNCHANGED <<procs, pageVars>>

\* line 162-163: the timeout of apiFetch fires, apiFetch(endpoint, options,
\* retryCount + 1) runs up to its fetch()
InnerTimerFires ==
  /\ pc = "innerWait"
  /\ Expired(timer)
  /\ retryCount' = retryCount + 1
  /\ IssueRequest(call)
  /\ UNCHANGED <<store, session, authVars, call, attempt, lastError, timer, resps,
                 response, hinted, removals, bodyRead, outcome>>
  /\ UNCHANGED <<procs, pageVars>>

\* line 66-67 and 57: the timeout of retryWithBackoff fires, the loop
\* continues with attempt + 1 and calls fn() again, or ends (line 75)
OuterTimerFires ==
  /\ pc = "outerWait"
  /\ Expired(timer)
  /\ attempt' = attempt + 1
  /\ IF attempt + 1 <= maxRetries
     THEN /\ retryCount' = 0
          /\ IssueRequest(call)
          /\ UNCHANGED outcome
     ELSE /\ outcome' = lastError
          /\ pc' = "done"
          /\ UNCHANGED <<retryCount, request, requests>>
  /\ UNCHANGED response
  /\ hinted' = IF pc' = "done" THEN FALSE ELSE hinted
  /\ timer' = IF pc' = "done" THEN NoTimer ELSE timer
  /\ UNCHANGED <<store, session, authVars, call, lastError, resps, removals,
                 bodyRead>>
  /\ UNCHANGED <<procs, pageVars>>

\* the caller has taken the result; the client is ready for the next call
Finish ==
  /\ pc = "done"
  /\ call' = NoCall /\ pc' = "idle" /\ attempt' = 0 /\ retryCount' = 0
  /\ lastError' = NoOutcome /\ timer' = NoTimer
  /\ request' = NoRequest /\ requests' = 0 /\ resps' = <<>>
  /\ response' = NoResponse /\ hinted' = FALSE /\ removals' = 0
  /\ bodyRead' = FALSE
  /\ outcome' = NoOutcome
  /\ UNCHANGED <<store, session, authVars>>
  /\ UNCHANGED <<procs, pageVars>>

Next ==
  \/ MountEffect
  \/ GuardEffect
  \/ login(LoginAccount, LoginToken, LoginUrl)
  \/ logout
  \/ \E c \in ApiCalls : StartApiCall(c)
  \/ \E e \in HelperEntries : StartHelperCall(e)
  \/ \E r \in Responses \cup {NetworkFailure} : Respond(r)
  \/ Tick
  \/ InnerTimerFires
  \/ OuterTimerFires
  \/ Finish

Spec == Init /\ [][Next]_vars

\* a page load with a saved session and the client's own keys present
FullStore ==
  [k \in StoreKeys |->
     CASE k = "keygen_token" -> Str(LegacyToken)
       [] k = "keygen_account" -> Str(LegacyAccount)
       [] k = "keygen_account_id" -> Str(LoginAccount)
       [] k = "keygen_admin_token" -> Str(LoginToken)
       [] OTHER -> Str(LoginUrl)]

FairInit == Init /\ store = FullStore /\ pathname = "/login"

\* every request is answered (or fails in transport) and every timeout fires
FairSpec ==
  /\ FairInit /\ [][Next]_vars
  /\ WF_vars(\E r \in Responses \cup {NetworkFailure} : Respond(r))
  /\ WF_vars(Tick)
  /\ WF_vars(InnerTimerFires)
  /\ WF_vars(OuterTimerFires)

(* ------------------------------------------- the client of lib/api.ts *)
LibEntries == {"lib.get", "lib.post", "lib.patch", "lib.delete"}

\* lib/api.ts line 53-70: the method each entry point of api sets
LibMethod(entry) ==
  CASE entry = "lib.get" -> "GET"
    [] entry = "lib.post" -> "POST"
    [] entry = "lib.patch" -> "PATCH"
    [] OTHER -> "DELETE"

AbsoluteEndpoint == "https://other.example/v1/ping"
LibEndpoints == {"/licenses", AbsoluteEndpoint}

\* endpoint.startsWith('http')
StartsWithHttp(endpoint) == endpoint = AbsoluteEndpoint

\* ${v} in a template literal
Template(v) == IF v.t = "str" THEN v.v ELSE "null"

\* lib/api.ts line 27-33: new Headers(options.headers) keeps every name in
\* lower case, set() replaces the value under the name
LibHeaders(callerHeaders, token) ==
  LET init == [i \in 1..Len(callerHeaders) |->
                 <<Lower(callerHeaders[i][1]), callerHeaders[i][2]>>]
      typed == SetHeader(SetHeader(init, "content-type", "application/vnd.api+json"),
                         "accept", "application/vnd.api+json")
  IN  IF Truthy(token) THEN SetHeader(typed, "authorization", "Bearer " \o token.v)
      ELSE typed

\* lib/api.ts line 19-38: the request apiRequest sends
LibRequest(c, st) ==
  LET accId == getItem(st, "keygen_account_id")
      token == getItem(st, "keygen_admin_token")
      base == Or(getItem(st, "keygen_base_url"), Str(DEFAULT_BASE_URL))
  IN  [method |-> LibMethod(c.entry),
       base |-> IF StartsWithHttp(c.endpoint) THEN "" ELSE base.v,
       path |-> IF StartsWithHttp(c.endpoint) THEN c.endpoint
                ELSE "/accounts/" \o Template(accId) \o c.endpoint,
       headers |-> LibHeaders(c.headers, token)]

\* throw data as KeygenError: the rejection carries the parsed body
Thrown(x) ==
  [kind |-> "Thrown", status |-> 0, message |-> Undefined, code |-> Undefined,
   validationErrors |-> Undefined, value |-> x]

\* lib/api.ts line 40-50: what apiRequest settles with for a response
ApiRequestResult(status, body) ==
  IF status = 204 THEN Resolved(EmptyObj)
  ELSE IF ~body.json THEN SyntaxError
  ELSE IF ~Ok(status) THEN Thrown(body.value)
  ELSE Resolved(body.value)

\* lib/api.ts line 40-44: response.json() is awaited unless the status is 204
LibReadsBody(r) == r # NetworkFailure /\ r.status # 204

LibCalls == [entry : LibEntries, endpoint : LibEndpoints, headers : CallerHeaderOptions]
LibResponses == {r \in Responses : r.retryAfter = NoHeader}

\* lib/api.ts line 15-38: apiRequest up to its fetch()
ApiRequestStart(c) ==
  /\ pc = "idle" /\ ~loading
  /\ c \in LibCalls
  /\ call' = c
  /\ attempt' = 0 /\ retryCount' = 0
  /\ request' = LibRequest(c, store)
  /\ requests' = requests + 1
  /\ pc' = "libInFlight"
  /\ UNCHANGED <<store, session, authVars, lastError, timer, resps,
                 response, hinted, removals, bodyRead, outcome>>
  /\ UNCHANGED <<procs, pageVars>>

\* lib/api.ts line 35-50 from the settling of fetch()
ApiRequestSettles(r) ==
  /\ pc = "libInFlight"
  /\ r \in LibResponses \cup {NetworkFailure}
  /\ resps' = Append(resps, r.status)
  /\ response' = r
  /\ bodyRead' = LibReadsBody(r)
  /\ outcome' = IF r = NetworkFailure THEN FetchFailed
                ELSE ApiRequestResult(r.status, r.body)
  /\ pc' = "done"
  /\ UNCHANGED <<store, session, authVars, call, attempt, retryCount, lastError,
                 timer, request, requests, hinted, removals>>
  /\ UNCHANGED <<procs, pageVars>>

LibNext ==
  \/ Next
  \/ \E c \in LibCalls : ApiRequestStart(c)
  \/ \E r \in LibResponses \cup {NetworkFailure} : ApiRequestSettles(r)

\* both clients on a page that loads with a saved session
LibSpec == FairInit /\ [][LibNext]_vars

(* ------------------------------------------------- calls side by side *)
ConcCalls ==
  { [entry |-> "api.get", endpoint |-> "/accounts/acct_1/licenses", headers |-> <<>>],
    [entry |-> "api.post", endpoint |-> "tokens", headers |-> <<>>] }

\* the responses the calls are given: one body per status
ConcResponses ==
  { [status |-> 200, body |-> JsonBody(SuccessDoc), retryAfter |-> NoHeader],
    [status |-> 401, body |-> JsonBody(DocDetail), retryAfter |-> NoHeader],
    [status |-> 429, body |-> JsonBody(DocDetail), retryAfter |-> NoHeader],
    [status |-> 500, body |-> JsonBody(DocDetail), retryAfter |-> NoHeader] }

\* a retry counter that all calls in progress share
RetryCountShared(ps, c) ==
  CHOOSE n \in {ps[d].retryCount : d \in CallIds} :
    \A d \in CallIds : ps[d].retryCount <= n

\* line 90-94: retryCount is a parameter of the call's own apiFetch invocation
RetryCountOf(ps, c) == ps[c].retryCount

\* fetch(url, {...init, headers}) inside one invocation of apiFetch: the token
\* is read from the store at this moment (line 102)
ProcIssue(p, st) ==
  LET rq == BuildRequest(p.call, st)
  IN  [p EXCEPT !.request = rq,
                !.first = IF p.requests = 0 THEN rq ELSE @,
                !.requests = @ + 1,
                !.inFlight = @ + 1,
                !.pc = "inFlight"]

\* retryWithBackoff line 58-72, given what fn() settled with
ProcAfterFn(p, result) ==
  IF result.kind = "ok"
  THEN [p EXCEPT !.outcome = HelperResult(p.call.entry, result), !.pc = "done"]
  ELSE IF ShouldRetry(result, p.attempt)
  THEN [p EXCEPT !.lastError = result, !.pc = "outerWait"]
  ELSE [p EXCEPT !.lastError = result, !.outcome = result, !.pc = "done"]

\* apiFetch line 125-185 for one call, rc being its retryCount
ProcReceive(p, r, rc) ==
  IF r = NetworkFailure THEN ProcAfterFn(p, FetchFailed)
  ELSE IF r.status = 401 /\ rc = 0 THEN ProcAfterFn(p, Throw401(r.body))
  ELSE IF r.status = 422 THEN ProcAfterFn(p, Throw422(r.body))
  ELSE IF r.status = 429
  THEN IF RetryAllowed(rc) THEN [p EXCEPT !.pc = "innerWait"]
       ELSE ProcAfterFn(p, ThrowRateLimit)
  ELSE IF ~Ok(r.status) THEN ProcAfterFn(p, ThrowGeneric(r.status, r.body))
  ELSE ProcAfterFn(p, Success(r.status, r.body))

\* api.*: call c starts and hands its first request to fetch()
ProcStart(c, cl) ==
  /\ procs[c].pc = "idle"
  /\ cl \in ConcCalls
  /\ procs' = [procs EXCEPT ![c] = ProcIssue([IdleProc EXCEPT !.call = cl], store)]
  /\ UNCHANGED <<store, session, authVars, callVars, pageVars>>

\* the fetch() of call c settles
ProcRespond(c, r) ==
  /\ procs[c].pc = "inFlight"
  /\ r \in ConcResponses \cup {NetworkFailure}
  /\ LET rc == RetryCountOf(procs, c)
         got == [procs[c] EXCEPT !.resps = Append(@, r.status), !.inFlight = @ - 1]
     IN  /\ procs' = [procs EXCEPT ![c] = ProcReceive(got, r, rc)]
         /\ store' = IF r.status = 401 /\ rc = 0 THEN ClearToken(store) ELSE store
  /\ UNCHANGED <<session, authVars, callVars, pageVars>>

\* line 162-163: the timeout of call c's apiFetch fires
ProcInnerTimerFires(c) ==
  /\ procs[c].pc = "innerWait"
  /\ procs' = [procs EXCEPT ![c] =
                 ProcIssue([@ EXCEPT !.retryCount = RetryCountOf(procs, c) + 1], store)]
  /\ UNCHANGED <<store, session, authVars, callVars, pageVars>>

\* line 66-67 and 57: the timeout of call c's retryWithBackoff fires
ProcOuterTimerFires(c) ==
  /\ procs[c].pc = "outerWait"
  /\ procs' = [procs EXCEPT ![c] =
                 IF @.attempt + 1 <= maxRetries
                 THEN ProcIssue([@ EXCEPT !.attempt = @ + 1, !.retryCount = 0], store)
                 ELSE [@ EXCEPT !.attempt = @ + 1, !.outcome = @.lastError,
                                !.pc = "done"]]
  /\ UNCHANGED <<store, session, authVars, callVars, pageVars>>

\* the caller of call c has taken the result
ProcFinish(c) ==
  /\ procs[c].pc = "done"
  /\ procs' = [procs EXCEPT ![c] = IdleProc]
  /\ UNCHANGED <<store, session, authVars, callVars, pageVars>>

\* a mounted page with a saved session and the client's own keys present
ConcInit ==
  /\ store = FullStore
  /\ accountId = Str(LoginAccount) /\ adminToken = Str(LoginToken)
  /\ baseUrl = LoginUrl
  /\ loading = FALSE
  /\ pathname = "/"
  /\ session = NoSession
  /\ call = NoCall /\ pc = "idle" /\ attempt = 0 /\ retryCount = 0
  /\ lastError = NoOutcome /\ timer = NoTimer
  /\ request = NoRequest /\ requests = 0 /\ resps = <<>>
  /\ response = NoResponse /\ hinted = FALSE /\ removals = 0
  /\ bodyRead = FALSE
  /\ outcome = NoOutcome
  /\ procs = IdleProcs
  /\ PageInit

ConcNext ==
  \E c \in CallIds :
    \/ \E cl \in ConcCalls : ProcStart(c, cl)
    \/ \E r \in ConcResponses \cup {NetworkFailure} : ProcRespond(c, r)
    \/ ProcInnerTimerFires(c)
    \/ ProcOuterTimerFires(c)
    \/ ProcFinish(c)

ConcSpec == ConcInit /\ [][ConcNext]_vars

(* ------------------------------------------------ the session on a page *)
MaxReloads == 2

Paths == {"/", "/login", "/licenses"}
OtherAccount == "acct_other"
OtherToken == "tok_other"

\* what localStorage may hold under the provider's keys when the page loads:
\* each key absent, empty or set
SessionStores ==
  { [k \in StoreKeys |->
       CASE k = "keygen_account_id" -> ac
         [] k = "keygen_admin_token" -> tk
         [] k = "keygen_base_url" -> url
         [] OTHER -> Null]
    : ac \in {Null, Str(""), Str(LoginAccount)},
      tk \in {Null, Str(""), Str(LoginToken)},
      url \in {Null, Str(LoginUrl)} }

\* the page is loaded again: AuthProvider mounts with its initial state
\* (auth-provider.tsx 20-23), the store and the address stay
Reload ==
  /\ reloads < MaxReloads
  /\ reloads' = reloads + 1
  /\ accountId' = Null /\ adminToken' = Null /\ baseUrl' = DEFAULT_BASE_URL
  /\ loading' = TRUE
  /\ UNCHANGED <<store, session, pathname, callVars, procs, formVars, filterVars,
                 dialogVars>>

\* the user follows a link of a rendered page (children render once loading
\* is over, auth-provider.tsx 83)
Navigate(p) ==
  /\ ~loading
  /\ p \in Paths /\ p # pathname
  /\ pathname' = p
  /\ UNCHANGED <<store, session, accountId, adminToken, baseUrl, loading,
                 callVars, procs, pageVars>>

AuthInit ==
  /\ store \in SessionStores
  /\ accountId = Null /\ adminToken = Null /\ baseUrl = DEFAULT_BASE_URL
  /\ loading = TRUE
  /\ pathname \in Paths
  /\ session = NoSession
  /\ call = NoCall /\ pc = "idle" /\ attempt = 0 /\ retryCount = 0
  /\ lastError = NoOutcome /\ timer = NoTimer
  /\ request = NoRequest /\ requests = 0 /\ resps = <<>>
  /\ response = NoResponse /\ hinted = FALSE /\ removals = 0
  /\ bodyRead = FALSE
  /\ outcome = NoOutcome
  /\ procs = IdleProcs
  /\ PageInit

AuthNext ==
  \/ MountEffect
  \/ GuardEffect
  \/ \E a \in {LoginAccount, OtherAccount}, t \in {LoginToken, OtherToken},
        u \in {LoginUrl, DEFAULT_BASE_URL} : login(a, t, u)
  \/ logout
  \/ Reload
  \/ \E p \in Paths : Navigate(p)

AuthSpec == AuthInit /\ [][AuthNext]_vars

(* ------------------------------------------------------- the login page *)
FormEmail == "admin@keygen.example"
FormPassword == "pass"
IssuedToken == "tok_issued"
\* String(undefined): what reaches setItem and setBaseUrl for the argument
\* part_008 line 56 does not pass
MissingArgument == "undefined"

\* the submitted values (they passed the zod schema): the token form and
\* the credential form of part_007, the form of part_008
Forms ==
  [kind : {"token"}, accountId : {LoginAccount}, secret : {LoginToken}, email : {""},
   baseUrl : {Undefined, Str(LoginUrl), Str(LoginUrl \o "/")}]
  \cup [kind : {"credential"}, accountId : {LoginAccount}, secret : {FormPassword},
        email : {FormEmail}, baseUrl : {Undefined, Str(LoginUrl), Str(LoginUrl \o "/")}]
  \cup [kind : {"legacy"}, accountId : {LoginAccount}, secret : {LoginToken},
        email : {""}, baseUrl : {Undefined}]

TokenDoc == Obj([data |-> Obj([attributes |-> Obj([token |-> Str(IssuedToken)])])])
TokenDocFlat == Obj([attributes |-> Obj([token |-> Str(IssuedToken)])])
TokenDocEmpty == Obj([data |-> Obj([attributes |-> Obj([token |-> Str("")])])])
TokenDocNoData == Obj([data |-> Null])

FormResponses ==
  [status : {200, 204, 401, 500}, retryAfter : {NoHeader},
   body : Bodies \cup {JsonBody(TokenDoc), JsonBody(TokenDocFlat),
                       JsonBody(TokenDocEmpty), JsonBody(TokenDocNoData)}]

\* s.replace(/\/$/, '') on the URLs that occur
StripTrailingSlash(s) == IF s = LoginUrl \o "/" THEN LoginUrl ELSE s

\* part_007 line 70 and 101: values.baseUrl?.replace(/\/$/, '') || default
CleanBaseUrl(v) ==
  IF IsNullish(v) THEN DEFAULT_BASE_URL
  ELSE Or(Str(StripTrailingSlash(v.v)), Str(DEFAULT_BASE_URL)).v

\* btoa(s), kept symbolic
Btoa(s) == "base64(" \o s \o ")"

\* part_007 line 73-79 and 104-114, part_008 line 46-52
FormRequest(f) ==
  [method |-> IF f.kind = "credential" THEN "POST" ELSE "GET",
   base |-> IF f.kind = "legacy" THEN DEFAULT_BASE_URL ELSE CleanBaseUrl(f.baseUrl),
   path |-> "/accounts/" \o f.accountId \o "/tokens",
   headers |-> << <<"Authorization",
                    IF f.kind = "credential"
                    THEN "Basic " \o Btoa(f.email \o ":" \o f.secret)
                    ELSE "Bearer " \o f.secret>>,
                  <<"Accept", "application/vnd.api+json">> >>]

\* a page that logs in whatever the validation request returned
FormAcceptsAnyStatus(r) == TRUE

\* if (response.ok)
FormAccepts(r) == Ok(r.status)

Rejected(message) == [login |-> FALSE, token |-> "", toast |-> message]
ConnectFailed == Rejected(Str("Failed to connect to Keygen API"))

\* the else branch: the message of the error toast, or the catch block when
\* the body parses to null
FormErrorToast(f, body) ==
  LET error == IF body.json THEN body.value ELSE EmptyObj
      firstError == OptFirst(Get(error, "errors"))
  IN  IF IsNullish(error) THEN ConnectFailed
      ELSE IF f.kind = "legacy"
      THEN Rejected(Or(OptGet(firstError, "detail"),
                       Str("Invalid Account ID or Admin Token")))
      ELSE Rejected(Or(Or(OptGet(firstError, "detail"), OptGet(firstError, "title")),
                       Str(IF f.kind = "token" THEN "Invalid Account ID or Admin Token"
                           ELSE "Invalid credentials")))

\* part_007 line 116-125: the token in the response of the credential form
FormIssuedToken(body) ==
  IF ~body.json \/ IsNullish(body.value) THEN ConnectFailed
  ELSE LET data == body.value
           token == Or(OptGet(OptGet(Get(data, "data"), "attributes"), "token"),
                       OptGet(Get(data, "attributes"), "token"))
       IN  IF Truthy(token)
           THEN [login |-> TRUE, token |-> token.v,
                 toast |-> Str("Successfully authenticated")]
           ELSE Rejected(Str("Failed to retrieve token from response"))

\* what the submit handler does once fetch() has settled with r
FormResult(f, r) ==
  IF r = NetworkFailure THEN ConnectFailed
  ELSE IF FormAccepts(r)
  THEN IF f.kind = "credential" THEN FormIssuedToken(r.body)
       ELSE [login |-> TRUE, token |-> f.secret,
             toast |-> Str("Successfully authenticated")]
  ELSE FormErrorToast(f, r.body)

\* onTokenSubmit / onCredentialSubmit / onSubmit up to the fetch()
SubmitForm(f) ==
  /\ ~loading /\ pathname = "/login"
  /\ ~isLoading
  /\ f \in Forms
  /\ form' = f
  /\ isLoading' = TRUE
  /\ formRequest' = FormRequest(f)
  /\ formResponse' = NoResponse
  /\ UNCHANGED <<store, session, authVars, callVars, procs, reloads, toast,
                 filterVars, dialogVars>>

\* the handler from the settling of fetch() to the end of its finally block
FormSettles(r) ==
  /\ isLoading
  /\ r \in FormResponses \cup {NetworkFailure}
  /\ formResponse' = r
  /\ LET res == FormResult(form, r) IN
       /\ toast' = res.toast
       /\ IF res.login
          THEN loginBody(form.accountId, res.token,
                         IF form.kind = "legacy" THEN MissingArgument
                         ELSE formRequest.base)
          ELSE UNCHANGED <<store, session, accountId, adminToken, baseUrl, pathname>>
  /\ isLoading' = FALSE
  /\ UNCHANGED <<loading, callVars, procs, reloads, form, formRequest, filterVars,
                 dialogVars>>

LoginNext ==
  \/ MountEffect
  \/ GuardEffect
  \/ logout
  \/ \E f \in Forms : SubmitForm(f)
  \/ \E r \in FormResponses \cup {NetworkFailure} : FormSettles(r)

\* the login page from every page load
LoginSpec == AuthInit /\ [][LoginNext]_vars

(* ------------------------------------------------------- useListFilter *)
MaxUserActions == 2

\* the numbers that occur as page and pageSize
Numbers == {-1, 0, 1, 2, 3, 10, 25, 100}

\* Number(v) of what URLSearchParams.get returns: null or a string
JsNumber(v) ==
  IF v = Null \/ v.v = "" THEN Num(0)
  ELSE IF \E n \in Numbers : ToString(n) = v.v
  THEN Num(CHOOSE n \in Numbers : ToString(n) = v.v)
  ELSE NaN

\* useListFilter.ts line 32-42
parseParams(params, def) ==
  [search |-> Or(Or(params.search, def.search), Str("")).v,
   status |-> Or(Or(params.status, def.status), Str("")).v,
   dateFrom |-> Or(Or(params.dateFrom, def.dateFrom), Str("")).v,
   dateTo |-> Or(Or(params.dateTo, def.dateTo), Str("")).v,
   page |-> Or(Or(JsNumber(params.page), def.page), Num(1)).v,
   pageSize |-> Or(Or(JsNumber(params.pageSize), def.pageSize), Num(10)).v]

\* a parameter that is set when the condition holds
ParamIf(cond, text) == IF cond THEN Str(text) ELSE Null

\* useListFilter.ts line 75-83: the query updateUrl builds
QueryOf(state, searchVal) ==
  [search |-> ParamIf(searchVal # "", searchVal),
   status |-> ParamIf(state.status # "", state.status),
   dateFrom |-> ParamIf(state.dateFrom # "", state.dateFrom),
   dateTo |-> ParamIf(state.dateTo # "", state.dateTo),
   page |-> ParamIf(state.page > 1, ToString(state.page)),
   pageSize |-> ParamIf(state.pageSize # 10, ToString(state.pageSize))]

\* useListFilter.ts line 71-89: the navigation in flight after updateUrl
updateUrl(state, searchVal, current, inFlight) ==
  IF QueryOf(state, searchVal) # current
  THEN [pending |-> TRUE, query |-> QueryOf(state, searchVal)]
  ELSE inFlight

\* a setFilter that keeps the page
setFilterKeepsPage(prev, key, value) == [prev EXCEPT ![key] = value]

\* useListFilter.ts line 106-117: the updater of setFilter(key, value)
setFilter(prev, key, value) ==
  LET next == [prev EXCEPT ![key] = value]
  IN  IF key # "page" /\ key # "pageSize" THEN [next EXCEPT !.page = 1] ELSE next

\* useListFilter.ts line 119-128
resetFilters(def) ==
  [search |-> Or(def.search, Str("")).v,
   status |-> Or(def.status, Str("")).v,
   dateFrom |-> Or(def.dateFrom, Str("")).v,
   dateTo |-> Or(def.dateTo, Str("")).v,
   page |-> 1,
   pageSize |-> Or(def.pageSize, Num(10)).v]

\* useListFilter.ts line 53-67: the state after the URL-to-state effect
SyncFromUrl(prev, params, def) ==
  IF prev = parseParams(params, def) THEN prev ELSE parseParams(params, def)

\* the values the pages' controls pass to setFilter
FilterValues(key) ==
  CASE key = "search" -> {"", "a", "b"}
    [] key = "status" -> {"", "active"}
    [] key = "dateFrom" -> {"2024-01-01"}
    [] key = "dateTo" -> {"2024-12-31"}
    [] key = "page" -> {1, 2, 3}
    [] OTHER -> {10, 25}

\* defaultFilters as the pages pass it (part_000 line 117-119), or none
DefaultConfigs ==
  { NoDefaults,
    [NoDefaults EXCEPT !.pageSize = Num(100)],
    [NoDefaults EXCEPT !.status = Str("active")] }

\* the query of the address the page is opened with
StartQueries ==
  { NoQuery,
    [NoQuery EXCEPT !.search = Str("a")],
    [NoQuery EXCEPT !.page = Str("2")],
    [NoQuery EXCEPT !.page = Str("0")],
    [NoQuery EXCEPT !.page = Str("-1")],
    [NoQuery EXCEPT !.page = Str("abc")],
    [NoQuery EXCEPT !.pageSize = Str("0")],
    [NoQuery EXCEPT !.pageSize = Str("abc")] }

\* a render is due: some state or the address changed since the last commit
Dirty ==
  \/ ~seen.valid
  \/ seen.filters # filters
  \/ seen.debounced # debounced
  \/ seen.searchParams # searchParams

\* the fields of filters the state-to-URL effect depends on (line 96-104)
UrlDeps(f) == <<f.status, f.dateFrom, f.dateTo, f.page, f.pageSize>>

\* one render and the effects it runs, in the order of their declaration:
\* useDebounce's timer (line 50), the URL-to-state effect (line 53-68) and
\* the state-to-URL effect (line 94-104), each when a dependency changed
Commit ==
  /\ Dirty
  /\ LET first == ~seen.valid
         urlChanged == seen.searchParams # searchParams
         runDebounce == first \/ seen.filters.search # filters.search
         runFromUrl == first \/ urlChanged \/ inlineDefaults
         runToUrl == \/ first \/ urlChanged
                     \/ seen.debounced # debounced
                     \/ UrlDeps(seen.filters) # UrlDeps(filters)
     IN  /\ debounceTimer' = IF runDebounce THEN Str(filters.search) ELSE debounceTimer
         /\ filters' = IF runFromUrl THEN SyncFromUrl(filters, searchParams, defaults)
                       ELSE filters
         /\ nav' = IF runToUrl THEN updateUrl(filters, debounced, searchParams, nav)
                   ELSE nav
  /\ seen' = [valid |-> TRUE, filters |-> filters, debounced |-> debounced,
              searchParams |-> searchParams]
  /\ UNCHANGED <<defaults, inlineDefaults, debounced, searchParams, userActions,
                 lastSearch>>
  /\ UNCHANGED <<store, session, authVars, callVars, procs, reloads, formVars,
                 dialogVars>>

\* the navigation of router.push completes: useSearchParams changes
Land ==
  /\ ~Dirty /\ nav.pending
  /\ searchParams' = nav.query
  /\ nav' = NoNav
  /\ UNCHANGED <<defaults, inlineDefaults, filters, debounced, debounceTimer, seen,
                 userActions, lastSearch>>
  /\ UNCHANGED <<store, session, authVars, callVars, procs, reloads, formVars,
                 dialogVars>>

\* line 50: the 300 ms timeout of useDebounce fires
DebounceFires ==
  /\ ~Dirty /\ debounceTimer # Null
  /\ debounced' = debounceTimer.v
  /\ debounceTimer' = Null
  /\ UNCHANGED <<defaults, inlineDefaults, filters, searchParams, nav, seen,
                 userActions, lastSearch>>
  /\ UNCHANGED <<store, session, authVars, callVars, procs, reloads, formVars,
                 dialogVars>>

\* a control of the page calls setFilter(key, value)
SetFilter(key, value) ==
  /\ ~Dirty /\ userActions < MaxUserActions
  /\ key \in FilterKeys /\ value \in FilterValues(key)
  /\ filters' = setFilter(filters, key, value)
  /\ userActions' = userActions + 1
  /\ lastSearch' = IF key = "search" THEN Str(value) ELSE lastSearch
  /\ UNCHANGED <<defaults, inlineDefaults, debounced, debounceTimer, searchParams,
                 nav, seen>>
  /\ UNCHANGED <<store, session, authVars, callVars, procs, reloads, formVars,
                 dialogVars>>

\* the page calls resetFilters()
ResetFilters ==
  /\ ~Dirty /\ userActions < MaxUserActions
  /\ filters' = resetFilters(defaults)
  /\ userActions' = userActions + 1
  /\ lastSearch' = Str(resetFilters(defaults).search)
  /\ UNCHANGED <<defaults, inlineDefaults, debounced, debounceTimer, searchParams,
                 nav, seen>>
  /\ UNCHANGED <<store, session, authVars, callVars, procs, reloads, formVars,
                 dialogVars>>

\* a list page opens in a mounted session: useState(() => parseParams(...))
\* (line 47) and useDebounce's initial value
FilterInit ==
  /\ store = FullStore
  /\ accountId = Str(LoginAccount) /\ adminToken = Str(LoginToken)
  /\ baseUrl = LoginUrl
  /\ loading = FALSE
  /\ pathname = "/licenses"
  /\ session = NoSession
  /\ call = NoCall /\ pc = "idle" /\ attempt = 0 /\ retryCount = 0
  /\ lastError = NoOutcome /\ timer = NoTimer
  /\ request = NoRequest /\ requests = 0 /\ resps = <<>>
  /\ response = NoResponse /\ hinted = FALSE /\ removals = 0
  /\ bodyRead = FALSE
  /\ outcome = NoOutcome
  /\ procs = IdleProcs
  /\ reloads = 0 /\ FormInit /\ DialogUnmounted
  /\ defaults \in DefaultConfigs /\ inlineDefaults \in BOOLEAN
  /\ searchParams \in StartQueries
  /\ filters = parseParams(searchParams, defaults)
  /\ debounced = filters.search
  /\ debounceTimer = Null /\ nav = NoNav /\ seen = NoSnapshot
  /\ userActions = 0 /\ lastSearch = Null

FilterNext ==
  \/ Commit
  \/ Land
  \/ DebounceFires
  \/ \E key \in FilterKeys : \E value \in FilterValues(key) : SetFilter(key, value)
  \/ ResetFilters

FilterSpec == FilterInit /\ [][FilterNext]_vars

\* every render that is due happens, every navigation completes and every
\* timeout fires
FilterFairSpec ==
  /\ FilterInit /\ [][FilterNext]_vars
  /\ WF_vars(Commit) /\ WF_vars(Land) /\ WF_vars(DebounceFires)

(* ---------------------------------------------------------------- claims *)
Waiting == pc \in {"innerWait", "outerWait"}
AllRateLimited == resps # <<>> /\ \A i \in 1..Len(resps) : resps[i] = 429
\* this step hands a request to fetch()
Issues == requests' = requests + 1
\* this step re-issues the request of a call that already sent one
Reissues == Issues /\ requests >= 1
\* this step receives a response (or a transport failure)
Receives == Len(resps') = Len(resps) + 1
\* most requests one call can issue: every run of retryWithBackoff's loop
\* body runs apiFetch's own retries
MaxRequests == (maxRetries + 1) * (MaxRetryCount + 1)

\* C1: a call whose every response is 429 fails with a classified 429 error
\* after exactly 4 requests (3 retries); a 5th request is never issued.
C1_ExhaustsAfterFourRequests ==
  /\ AllRateLimited => requests <= 4
  /\ (pc = "done" /\ AllRateLimited) =>
       /\ requests = 4
       /\ outcome.kind = "ApiError" /\ outcome.status = 429

\* C2: a call re-issues its request only after a 429 response; any other
\* status or a transport failure settles the call at once, and a transport
\* failure reaches the caller as the rejection of fetch itself, not as an
\* ApiError.
C2_RetriesOnly429 ==
  [][ /\ Reissues => (Len(resps) = requests /\ resps[Len(resps)] = 429)
      /\ (Receives /\ response'.status # 429) =>
           /\ pc' = "done"
           /\ requests' = requests
           /\ (response' = NetworkFailure => outcome' = FetchFailed) ]_vars

C2_Witness ==
  /\ pc = "done" /\ resps = <<429, 0>> /\ requests = 2
  /\ outcome = FetchFailed

\* C3: when the first response of a call is 401, the call fails with a
\* classified error of status 401 whose message is the server's first error
\* detail if present, the stored token is removed exactly once, and no
\* further request is issued for that call.
C3_UnauthorizedOneShot ==
  (pc = "done" /\ resps # <<>> /\ resps[1] = 401) =>
     /\ outcome.kind = "ApiError" /\ outcome.status = 401
     /\ LET detail == IF response.body.json /\ ~IsNullish(response.body.value)
                      THEN OptGet(OptFirst(Get(response.body.value, "errors")), "detail")
                      ELSE Undefined
        IN  Truthy(detail) => outcome.message = detail
     /\ removals = 1 /\ getAuthToken(store) = Null
     /\ requests = 1

\* C4: whenever a call terminates with an error of status 401, whatever
\* responses preceded it, the stored token is absent from the store.
C4_Always401Clears ==
  (pc = "done" /\ outcome.kind = "ApiError" /\ outcome.status = 401) =>
     getAuthToken(store) = Null

\* C5: when the store holds a token t, every request the client issues
\* carries Authorization exactly 'Bearer t', whatever Authorization entry
\* (under any capitalisation) the caller supplied.
C5_BearerNotOverridable ==
  (pc = "inFlight" /\ Truthy(getAuthToken(store))) =>
     WireValues(request.headers, "authorization")
       = <<"Bearer " \o getAuthToken(store).v>>

\* C6: after login(a, t, u) and before any logout or credential clear, every
\* request the client issues carries Authorization: Bearer t, addresses
\* account a and is sent to base URL u.
C6_LoginCredentialsUsed ==
  [][ (Issues /\ session' # NoSession) =>
        /\ WireValues(request'.headers, "authorization")
             = <<"Bearer " \o session'.token>>
        /\ request'.base = session'.url
        /\ call'.entry \in HelperEntries =>
             request'.path = HelperEndpoint(call'.entry, session'.account) ]_vars

\* C7: a call through api.* whose first three responses are 429 and whose
\* fourth is a 200 with a JSON body resolves with that parsed body after
\* exactly 4 requests, and every retry is issued only once the backoff wait
\* set after the preceding 429 has run its full delay.
C7_SucceedsOnFourth ==
  /\ [] ( (pc = "done" /\ call.entry \in ApiEntries
            /\ resps = <<429, 429, 429, 200>> /\ response.body.json) =>
          (outcome = Resolved(response.body.value) /\ requests = 4) )
  /\ [][ Reissues =>
           /\ Waiting /\ response.status = 429
           /\ timer.elapsed >= timer.delay ]_vars

C7_Witness ==
  /\ pc = "done" /\ call.entry \in ApiEntries
  /\ resps = <<429, 429, 429, 200>> /\ response.body = JsonBody(SuccessDoc)
  /\ outcome = Resolved(SuccessDoc) /\ requests = 4

\* C8: if every request is eventually answered and every backoff timer
\* eventually fires, every call eventually settles, and no call issues more
\* than a fixed number of requests.
C8_Terminates ==
  /\ [] (requests <= MaxRequests)
  /\ (pc \in {"inFlight", "innerWait", "outerWait"}) ~> (pc = "done")

C8_Witness == pc = "done" /\ AllRateLimited /\ requests = MaxRequests

\* C9: whenever a 429 carries Retry-After: n seconds, the next request of the
\* call is issued after a wait of exactly n seconds, for every retry.
C9_RetryAfterHonoured ==
  [][ (Reissues /\ response.status = 429 /\ response.retryAfter.t = "secs") =>
        timer.elapsed = response.retryAfter.v * MsPerSecond ]_vars

\* C10: when the 429 responses of a call carry no Retry-After header, the
\* delay before the first retry is the 1-second base delay and the delay
\* before every later retry is double the delay before the previous one.
C10_DelayDoubles ==
  [][ (Receives /\ pc' \in {"innerWait", "outerWait"} /\ ~hinted') =>
        timer'.delay = IF requests = 1 THEN baseDelay ELSE 2 * timer.delay ]_vars

\* the latest response is a failing status that apiFetch classifies
FailedStatus == response.status >= 300 /\ response.status # 429
\* x has the shape of a JSON:API error document
IsErrorDocument(x) ==
  /\ x.t = "obj"
  /\ Get(x, "errors").t = "arr"
  /\ \A i \in 1..Len(Get(x, "errors").v) : Get(x, "errors").v[i].t = "obj"
Present(x) == ~IsNullish(x)

\* C13: the only store mutation a client call performs is removing the token
\* key, and only on receiving a 401; every other entry is left as it is.
C13_StoreOnlyLosesToken ==
  [][ callVars' # callVars =>
        /\ \/ store' = store
           \/ /\ store' = removeItem(store, "keygen_token")
              /\ Receives /\ response'.status = 401
        /\ \A k \in StoreKeys \ {"keygen_token"} : store'[k] = store[k] ]_vars

C13_Witness ==
  /\ pc = "done" /\ response.status = 401 /\ removals = 1
  /\ getAuthToken(store) = Null
  /\ getAccountId(store) = Str(LegacyAccount)

\* the entries the claim expects for the elements of an errors array
C15_StripPrefix(s) == IF s = "/data/attributes/name" THEN "name" ELSE s
C15_Expected(items) ==
  LET src(e) == Get(e, "source")
      sel == SelectSeq(items, LAMBDA e : \/ Present(OptGet(src(e), "pointer"))
                                         \/ Present(OptGet(src(e), "parameter")))
  IN  [i \in 1..Len(sel) |->
         Obj([field |-> IF Present(OptGet(src(sel[i]), "pointer"))
                        THEN Str(C15_StripPrefix(Get(src(sel[i]), "pointer").v))
                        ELSE Get(src(sel[i]), "parameter"),
              message |-> IF Present(Get(sel[i], "detail")) THEN Get(sel[i], "detail")
                          ELSE Get(sel[i], "title"),
              code |-> Get(sel[i], "code")])]

\* C15: a 422 whose body is a JSON:API error document fails with status 422
\* and a validationErrors list holding, in order, exactly one entry per
\* element that has source.pointer or source.parameter: field = the pointer
\* without '/data/attributes/' (else the parameter), message = detail (title
\* when detail is absent), code = the element's code.
C15_ValidationEntries ==
  (pc = "done" /\ response.status = 422 /\ response.body.json
     /\ IsErrorDocument(response.body.value)) =>
    /\ outcome.kind = "ApiError" /\ outcome.status = 422
    /\ outcome.validationErrors.t = "arr"
    /\ outcome.validationErrors.v
         = C15_Expected(Get(response.body.value, "errors").v)

C15_Witness ==
  /\ pc = "done" /\ response.status = 422
  /\ response.body = JsonBody(DocPointer)
  /\ Len(outcome.validationErrors.v) = 2
  /\ Get(outcome.validationErrors.v[1], "field") = Str("name")
  /\ Get(outcome.validationErrors.v[2], "field") = Str("page")

\* C16: any failing status other than 401, 422 and 429 fails with a
\* classified error of that status whose message is the first error's detail
\* if present, otherwise its title if present, otherwise a generic message
\* built from the status code.
C16_DetailThenTitle ==
  (pc = "done" /\ FailedStatus /\ response.status \notin {401, 422}
     /\ response.body.json /\ response.body.value.t = "obj") =>
    /\ outcome.kind = "ApiError" /\ outcome.status = response.status
    /\ LET first == OptFirst(Get(response.body.value, "errors"))
           detail == IF first.t = "obj" THEN Get(first, "detail") ELSE Undefined
           title == IF first.t = "obj" THEN Get(first, "title") ELSE Undefined
       IN  outcome.message =
             IF Present(detail) THEN detail
             ELSE IF Present(title) THEN title
             ELSE Str("API Error: " \o ToString(response.status))

\* C17: a failing status that apiFetch classifies (401, 422, any other non-2xx
\* except 429) whose body is empty or not valid JSON still yields a classified
\* error carrying that status and the branch's fallback message, never the
\* parse exception.
C17_MalformedBodyFallsBack ==
  (pc = "done" /\ FailedStatus /\ ~response.body.json) =>
    /\ outcome.kind = "ApiError" /\ outcome.status = response.status
    /\ outcome.message =
         Str(IF response.status = 422 THEN "Validation failed"
             ELSE IF response.status = 401 /\ retryCount = 0
                  THEN "Authentication required"
             ELSE "An unknown error occurred")

C17_Witness ==
  /\ pc = "done" /\ response.status = 500 /\ response.body = NonJsonBody
  /\ outcome.kind = "ApiError" /\ outcome.status = 500

\* C18: a failing response whose body is valid JSON but not an error document
\* still fails with a classified error carrying the response status and a
\* message; no secondary exception escapes.
C18_OddShapeStillClassified ==
  (pc = "done" /\ FailedStatus /\ response.body.json
     /\ ~IsErrorDocument(response.body.value)) =>
    /\ outcome.kind = "ApiError" /\ outcome.status = response.status
    /\ Truthy(outcome.message)

\* C19: a response with status 204 settles the call at once with the empty
\* success value {} (a helper that unwraps it resolves too), the body is never
\* read whatever it contains, and no further request is issued.
C19_NoContentShortCircuit ==
  [][ (Receives /\ response'.status = 204) =>
        /\ pc' = "done"
        /\ requests' = requests
        /\ ~bodyRead'
        /\ outcome'.kind = "ok"
        /\ call.entry \in ApiEntries \cup LibEntries => outcome' = Resolved(EmptyObj) ]_vars

C19_Witness ==
  /\ pc = "done" /\ call.entry \in ApiEntries
  /\ response.status = 204 /\ response.body = NonJsonBody
  /\ outcome = Resolved(EmptyObj) /\ ~bodyRead

\* C20: apiRequest of lib/api.ts, given a failing status whose body is not
\* JSON, rejects with an error document holding a single error, never with
\* the parse exception of response.json().
C20_NoParseException ==
  (/\ pc = "done" /\ call.entry \in LibEntries
   /\ response # NetworkFailure /\ ~Ok(response.status) /\ ~response.body.json) =>
     /\ outcome.kind = "Thrown"
     /\ IsErrorDocument(outcome.value)
     /\ Len(Get(outcome.value, "errors").v) = 1

\* AuthProvider's isAuthenticated
isAuthenticated == Truthy(adminToken)

\* C14: once a call has failed with a 401 and the token is cleared, and the
\* provider's effects have all run, the session is unauthenticated and the
\* router stands at /login, with no logout by the user.
C14_SessionEndsAfter401 ==
  (/\ pc = "done" /\ outcome.kind = "ApiError" /\ outcome.status = 401
   /\ removals >= 1 /\ getAuthToken(store) = Null
   /\ ~ENABLED MountEffect /\ ~ENABLED GuardEffect) =>
     /\ ~isAuthenticated
     /\ pathname = "/login"

\* C11: every request a call issues after its first is the same request as
\* the first (method, URL and headers, Authorization included), whatever the
\* other calls do in between.
C11_RetrySameRequest ==
  \A c \in CallIds : procs[c].requests >= 1 => procs[c].request = procs[c].first

\* the body the server sends with a status when calls run side by side
ConcBody(status) ==
  (CHOOSE r \in ConcResponses : r.status = status).body

\* what a call settles with as a function of the statuses it received alone:
\* every status before the last is a 429, and a 401 clears and classifies only
\* when it answers the first request of an apiFetch chain
C12_Expected(rs) ==
  LET last == rs[Len(rs)]
      chain == (Len(rs) - 1) % (MaxRetryCount + 1)
  IN  CASE last = 0 -> FetchFailed
        [] last = 200 -> Resolved(SuccessDoc)
        [] last = 429 -> ThrowRateLimit
        [] last = 401 /\ chain = 0 -> Throw401(ConcBody(401))
        [] OTHER -> ThrowGeneric(last, ConcBody(last))

\* C12: with calls running side by side, each call's number of requests and
\* its outcome are a function of the responses to its own requests, and a
\* call never has more than one request in flight.
C12_PerCallAccounting ==
  \A c \in CallIds :
    LET p == procs[c] IN
      /\ p.inFlight <= 1
      /\ p.requests = Len(p.resps) + p.inFlight
      /\ p.requests <= MaxRequests
      /\ \A i \in 1..(Len(p.resps) - 1) : p.resps[i] = 429
      /\ p.pc = "done" =>
           /\ p.outcome = C12_Expected(p.resps)
           /\ p.resps[Len(p.resps)] = 429 => Len(p.resps) = MaxRequests
      /\ (p.pc # "done" /\ p.resps # <<>>) => p.resps[Len(p.resps)] = 429

C12_Witness ==
  /\ procs[1].pc = "done" /\ procs[1].resps = <<429, 429, 429, 429, 200>>
  /\ procs[2].pc = "done" /\ procs[2].resps = <<429, 401>>
  /\ procs[1].outcome.kind = "ok" /\ procs[2].outcome.status = 401

\* the path of a resource: /accounts/{accountId}/{type}[/{id}]
C29_Path(entry, a) ==
  "/accounts/" \o a \o "/" \o ResourceType \o
    (IF entry \in {"updateResource", "deleteResource", "fetchResource"}
     THEN "/" \o ResourceId ELSE "")

\* C29: a resource helper called with no account identifier in the store
\* fails with ApiError(400, 'Account ID not found') and issues no request;
\* with an identifier a stored, every request of the call goes to
\* /accounts/a/{type}[/{id}].
C29_HelpersNeedAccount ==
  call.entry \in HelperEntries =>
    IF ~Truthy(getAccountId(store))
    THEN /\ pc = "done" /\ requests = 0 /\ request = NoRequest
         /\ outcome = ApiError(Str("Account ID not found"), 400, Undefined, Undefined)
    ELSE /\ requests >= 1
         /\ request.path = C29_Path(call.entry, getAccountId(store).v)

C29_Witness ==
  /\ call.entry = "updateResource" /\ pc = "inFlight"
  /\ getAccountId(store) = Str(LegacyAccount)
  /\ request.path = "/accounts/acct_1/licenses/lic_1"

\* the guard has a redirect to make
C21_MustRedirect ==
  /\ ~loading
  /\ \/ ~isAuthenticated /\ pathname # "/login"
     \/ isAuthenticated /\ pathname = "/login"

\* C21: once loading is over the guard redirects exactly when no token is
\* held away from /login (to /login) or a token is held at /login (to /);
\* one redirect brings the guard to rest, and an unauthenticated session
\* rests only at /login.
C21_RouteGuard ==
  /\ [](C21_MustRedirect <=> ENABLED GuardEffect)
  /\ []((~loading /\ ~ENABLED GuardEffect /\ ~isAuthenticated) => pathname = "/login")
  /\ [][ GuardEffect =>
           /\ pathname' = (IF isAuthenticated THEN "/" ELSE "/login")
           /\ ~C21_MustRedirect' ]_vars

C21_Witness ==
  /\ ~loading /\ reloads >= 1
  /\ getItem(store, "keygen_admin_token") = Str(LoginToken)
  /\ getItem(store, "keygen_account_id") = Str("")
  /\ ~isAuthenticated /\ pathname = "/login"

C22_Stored(st) ==
  [account |-> getItem(st, "keygen_account_id"),
   token |-> getItem(st, "keygen_admin_token"),
   url |-> getItem(st, "keygen_base_url")]

\* C22: a mount after login(a, t, u) restores accountId = a, adminToken = t
\* and baseUrl = u; logout leaves the three keys absent and the state at
\* (null, null, default base URL), and a mount over the absent keys is
\* unauthenticated.
C22_SessionRoundTrip ==
  [][ /\ (MountEffect /\ session # NoSession) =>
           /\ accountId' = Str(session.account)
           /\ adminToken' = Str(session.token)
           /\ baseUrl' = session.url
      /\ logout =>
           /\ C22_Stored(store') = [account |-> Null, token |-> Null, url |-> Null]
           /\ accountId' = Null /\ adminToken' = Null
           /\ baseUrl' = DEFAULT_BASE_URL
      /\ (MountEffect /\ C22_Stored(store) = [account |-> Null, token |-> Null, url |-> Null]) =>
           /\ ~isAuthenticated'
           /\ accountId' = Null /\ baseUrl' = DEFAULT_BASE_URL ]_vars

C22_Witness ==
  /\ ~loading /\ reloads >= 1
  /\ session = [account |-> OtherAccount, token |-> OtherToken, url |-> DEFAULT_BASE_URL]
  /\ accountId = Str(OtherAccount) /\ adminToken = Str(OtherToken)
  /\ baseUrl = DEFAULT_BASE_URL /\ pathname = "/licenses"

\* this step is the login page's handler settling
C23_Settles == isLoading /\ formResponse' # formResponse
C23_AuthState == <<store, accountId, adminToken, baseUrl>>

\* C23: a login form writes credentials and changes the auth state only when
\* its validation request returned a 2xx response (for the credential form:
\* one carrying a token, which is the token stored); after any other
\* response or a transport failure store and auth state are as before; the
\* handler always ends with isLoading false.
C23_ValidatesBeforePersisting ==
  [][ C23_Settles =>
        /\ ~isLoading'
        /\ C23_AuthState' # C23_AuthState =>
             /\ formResponse' # NetworkFailure
             /\ formResponse'.status \in 200..299
             /\ accountId' = Str(form.accountId)
             /\ getItem(store', "keygen_admin_token") = adminToken'
             /\ form.kind = "credential" => adminToken' = Str(IssuedToken)
             /\ form.kind # "credential" => adminToken' = Str(form.secret)
        /\ (formResponse' = NetworkFailure \/ formResponse'.status \notin 200..299) =>
             UNCHANGED <<store, session, authVars>> ]_vars

C23_Witness ==
  /\ form.kind = "credential" /\ ~isLoading
  /\ formResponse.status = 200 /\ formResponse.body = JsonBody(TokenDocFlat)
  /\ adminToken = Str(IssuedToken)
  /\ getItem(store, "keygen_admin_token") = Str(IssuedToken)
  /\ pathname = "/"

\* C24: the query updateUrl writes for a state that setFilter produced parses
\* back to that state, whatever defaultFilters is.
C24_UrlRoundTrip ==
  [][ (\E key \in FilterKeys : \E value \in FilterValues(key) : SetFilter(key, value)) =>
        parseParams(QueryOf(filters', filters'.search), defaults) = filters' ]_vars

\* nothing is left to run: no render due, no navigation in flight, no
\* debounce timeout pending
Quiescent == ~Dirty /\ ~nav.pending /\ debounceTimer = Null

\* C25: once everything has settled, filters.search is the search text the
\* user set last and the URL carries it.
C25_SearchNotLost ==
  (Quiescent /\ lastSearch # Null) =>
     /\ filters.search = lastSearch.v
     /\ searchParams.search = ParamIf(lastSearch.v # "", lastSearch.v)

\* the value resetFilters gives a field: the configured default, else the
\* built-in one
C26_Default(key) ==
  IF Truthy(defaults[key]) THEN defaults[key].v ELSE EmptyFilters[key]

\* C26: setFilter(key, value) for a key other than page and pageSize sets
\* the field and page = 1 and nothing else; for page and pageSize it sets
\* that field only; resetFilters sets every field to its default and page
\* to 1.
C26_SetFilterFrame ==
  [][ /\ \A key \in FilterKeys : \A value \in FilterValues(key) :
           SetFilter(key, value) =>
             /\ filters'[key] = value
             /\ key \notin {"page", "pageSize"} => filters'.page = 1
             /\ \A k \in FilterKeys \ {key} :
                  (k # "page" \/ key = "pageSize") => filters'[k] = filters[k]
      /\ ResetFilters =>
           /\ filters'.page = 1
           /\ \A k \in FilterKeys \ {"page"} : filters'[k] = C26_Default(k) ]_vars

C26_Witness ==
  /\ userActions = 1 /\ Dirty /\ seen.valid
  /\ seen.filters.page = 2 /\ seen.filters.status = ""
  /\ filters = [seen.filters EXCEPT !.status = "active", !.page = 1]

\* C27: after the user's last call the two sync effects come to rest, with
\* the filter state equal to what the URL parses to.
C27_SyncSettles ==
  <>[](Quiescent /\ parseParams(searchParams, defaults) = filters)

(* ------------------------------------------------- PolicyDeleteDialog *)
MaxDeletes == 2

\* the policies page in a signed-in session, no dialog open
PoliciesInit ==
  /\ store = FullStore
  /\ accountId = Str(LoginAccount) /\ adminToken = Str(LoginToken)
  /\ baseUrl = LoginUrl
  /\ loading = FALSE
  /\ pathname = "/policies"
  /\ session = NoSession
  /\ call = NoCall /\ pc = "idle" /\ attempt = 0 /\ retryCount = 0
  /\ lastError = NoOutcome /\ timer = NoTimer
  /\ request = NoRequest /\ requests = 0 /\ resps = <<>>
  /\ response = NoResponse /\ hinted = FALSE /\ removals = 0
  /\ bodyRead = FALSE
  /\ outcome = NoOutcome
  /\ procs = IdleProcs
  /\ reloads = 0 /\ FormInit /\ FilterIdle /\ DialogIdle

\* the documents the license count request resolves with: a count of none,
\* a count of two, and a page without meta
CountDoc(n) == Obj([meta |-> Obj([count |-> Num(n)])])
CountDocNoMeta == Obj([data |-> Arr(<<>>)])
CountDocs == {CountDoc(0), CountDoc(2), CountDocNoMeta}

\* part_010 line 24-32: useQuery's isLoading for the policy of the dialog,
\* a first fetch in flight; the query is enabled while the dialog is open
isLoadingCount ==
  /\ policyToDelete # Null
  /\ licenseQuery[policyToDelete.v].status = "pending"
  /\ licenseQuery[policyToDelete.v].fetching

\* part_010 line 34
licenseCount ==
  IF policyToDelete = Null THEN Num(0)
  ELSE Or(OptGet(OptGet(licenseQuery[policyToDelete.v].data, "meta"), "count"), Num(0))

\* part_010 line 35
hasLicenses == licenseCount.v > 0

\* part_010 line 81: the confirmDisabled prop PolicyDeleteDialog passes
confirmDisabled == hasLicenses \/ isLoadingCount

\* PolicyEditDialog.tsx line 465-473, 504-509: DeleteConfirmDialog takes no
\* confirmDisabled prop; its Delete button is disabled by isLoading alone,
\* which is deletePolicy.isPending (page.tsx line 573)
DeleteButtonDisabled == deletePolicy.isPending

\* page.tsx line 555: the Delete entry of a row opens the dialog; the query
\* of that policy is enabled and fetches (part_010 line 24-32)
OpenDeleteDialog(id) ==
  /\ policyToDelete = Null
  /\ id \in PolicyIds
  /\ policyToDelete' = Str(id)
  /\ licenseQuery' = [licenseQuery EXCEPT ![id].fetching = TRUE]
  /\ UNCHANGED <<deletePolicy, policy, formData, isSubmitting, sent, edited>>
  /\ UNCHANGED <<store, session, authVars, callVars, procs, reloads, formVars,
                 filterVars>>

\* the license count request of a policy resolves with a document
CountResolves(id, doc) ==
  /\ id \in PolicyIds /\ doc \in CountDocs
  /\ licenseQuery[id].fetching
  /\ licenseQuery' = [licenseQuery EXCEPT
                        ![id] = [status |-> "success", fetching |-> FALSE, data |-> doc]]
  /\ UNCHANGED <<policyToDelete, deletePolicy, policy, formData, isSubmitting, sent,
                 edited>>
  /\ UNCHANGED <<store, session, authVars, callVars, procs, reloads, formVars,
                 filterVars>>

\* the license count request of a policy fails: the data of an earlier
\* fetch stays
CountRejects(id) ==
  /\ id \in PolicyIds
  /\ licenseQuery[id].fetching
  /\ licenseQuery' = [licenseQuery EXCEPT ![id].status = "error", ![id].fetching = FALSE]
  /\ UNCHANGED <<policyToDelete, deletePolicy, policy, formData, isSubmitting, sent,
                 edited>>
  /\ UNCHANGED <<store, session, authVars, callVars, procs, reloads, formVars,
                 filterVars>>

\* page.tsx line 571: onClose, from Cancel or from the dialog's onOpenChange
\* (PolicyEditDialog.tsx line 475, 499)
CloseDeleteDialog ==
  /\ policyToDelete # Null
  /\ policyToDelete' = Null
  /\ UNCHANGED <<licenseQuery, deletePolicy, policy, formData, isSubmitting, sent,
                 edited>>
  /\ UNCHANGED <<store, session, authVars, callVars, procs, reloads, formVars,
                 filterVars>>

\* the Delete button is clicked (PolicyEditDialog.tsx line 504-509): onConfirm
\* starts the mutation (page.tsx line 572)
ConfirmDelete ==
  /\ policyToDelete # Null
  /\ ~DeleteButtonDisabled
  /\ Len(deletePolicy.calls) < MaxDeletes
  /\ deletePolicy' = [isPending |-> TRUE,
                      calls |-> Append(deletePolicy.calls, policyToDelete.v)]
  /\ UNCHANGED <<policyToDelete, licenseQuery, policy, formData, isSubmitting, sent,
                 edited>>
  /\ UNCHANGED <<store, session, authVars, callVars, procs, reloads, formVars,
                 filterVars>>

\* page.tsx line 254-261: the delete request settles
DeleteSettles(ok) ==
  /\ deletePolicy.isPending
  /\ deletePolicy' = [deletePolicy EXCEPT !.isPending = FALSE]
  /\ policyToDelete' = IF ok THEN Null ELSE policyToDelete
  /\ toast' = Str(IF ok THEN "Policy deleted successfully"
                  ELSE "Failed to delete policy: Conflict")
  /\ UNCHANGED <<licenseQuery, policy, formData, isSubmitting, sent, edited>>
  /\ UNCHANGED <<store, session, authVars, callVars, procs, reloads, form, isLoading,
                 formRequest, formResponse, filterVars>>

DeleteNext ==
  \/ \E id \in PolicyIds : OpenDeleteDialog(id)
  \/ \E id \in PolicyIds : \E doc \in CountDocs : CountResolves(id, doc)
  \/ \E id \in PolicyIds : CountRejects(id)
  \/ CloseDeleteDialog
  \/ ConfirmDelete
  \/ \E ok \in BOOLEAN : DeleteSettles(ok)

DeleteSpec == PoliciesInit /\ [][DeleteNext]_vars

\* C28: the Delete button starts no delete request while the license count
\* of the dialog's policy is loading or greater than zero.
C28_BlockedWhileLicensed ==
  [][ Len(deletePolicy'.calls) > Len(deletePolicy.calls) =>
        ~(isLoadingCount \/ hasLicenses) ]_vars

(* --------------------------------------------------- PolicyEditDialog *)
MaxEdits == 1
MaxSaves == 1

\* PolicyEditDialog.tsx line 54-62: the values of DURATION_PRESETS that are
\* durations
PresetValues == {"604800", "1209600", "2592000", "7776000", "31536000"}

\* the integers that occur in policies and in the form's number inputs
EditNumbers == {0, 3, 7, 5000, 604800, 1209600, 2592000, 7776000, 31536000}

\* parseInt(s, 10) of a form value: an integer's digits or something else
ParseInt(s) ==
  IF \E n \in EditNumbers : ToString(n) = s
  THEN Num(CHOOSE n \in EditNumbers : ToString(n) = s)
  ELSE NaN

\* s.trim() of the names that occur
Trim(s) == IF s = "  " THEN "" ELSE s

\* x?.toString() of null or a number
OptToString(x) == IF IsNullish(x) THEN Undefined ELSE Str(ToString(x.v))

\* the policies the dialog is opened with: duration and the three limits are
\* null or a non-negative integer
Policies ==
  [name : {"Basic"},
   duration : {Null, Num(0), Num(604800), Num(5000)},
   maxMachines : {Null, Num(0), Num(3)},
   maxProcesses : {Null, Num(3)},
   maxUses : {Null, Num(3)}]

\* PolicyEditDialog.tsx line 102-134: the formData the effect sets
LoadForm(p) ==
  LET duration == p.duration
      lifetime == duration = Null \/ duration = Num(0)
      preset == ~lifetime /\ ToString(duration.v) \in PresetValues
  IN  [name |-> p.name,
       durationPreset |-> IF lifetime THEN ""
                          ELSE IF preset THEN ToString(duration.v) ELSE "custom",
       customDuration |-> IF lifetime \/ preset THEN "" ELSE ToString(duration.v),
       maxMachines |-> Or(OptToString(p.maxMachines), Str("")).v,
       maxProcesses |-> Or(OptToString(p.maxProcesses), Str("")).v,
       maxUses |-> Or(OptToString(p.maxUses), Str("")).v]

\* PolicyEditDialog.tsx line 149-183: the attributes handleSubmit builds
Attributes(fd) ==
  [name |-> fd.name,
   duration |-> IF fd.durationPreset = "custom" /\ fd.customDuration # ""
                THEN ParseInt(fd.customDuration)
                ELSE IF fd.durationPreset # "" THEN ParseInt(fd.durationPreset)
                ELSE Null,
   maxMachines |-> IF fd.maxMachines # "" THEN ParseInt(fd.maxMachines) ELSE Null,
   maxProcesses |-> IF fd.maxProcesses # "" THEN ParseInt(fd.maxProcesses) ELSE Null,
   maxUses |-> IF fd.maxUses # "" THEN ParseInt(fd.maxUses) ELSE Null]

\* a number input with min="1" (line 259, 325, 342, 359) lets the form submit
\* when it is empty or holds a number of at least 1
InputValid(s) == s = "" \/ (ParseInt(s) # NaN /\ ParseInt(s).v >= 1)
InputsValid(fd) ==
  /\ fd.durationPreset = "custom" => InputValid(fd.customDuration)
  /\ InputValid(fd.maxMachines) /\ InputValid(fd.maxProcesses)
  /\ InputValid(fd.maxUses)

\* the dialog is opened with a policy; the effect of line 102-134 loads the
\* form
OpenEditDialog(p) ==
  /\ policy = Null /\ Len(sent) < MaxSaves
  /\ p \in Policies
  /\ policy' = Obj(p)
  /\ formData' = LoadForm(p)
  /\ edited' = 0
  /\ UNCHANGED <<policyToDelete, licenseQuery, deletePolicy, isSubmitting, sent>>
  /\ UNCHANGED <<store, session, authVars, callVars, procs, reloads, formVars,
                 filterVars>>

\* the values the user gives a field
FieldValues(field) ==
  CASE field = "name" -> {"", "  ", "Pro"}
    [] field = "durationPreset" -> {"", "604800", "custom"}
    [] field = "customDuration" -> {"5000"}
    [] OTHER -> {"", "7"}

\* line 217-219, 228-234, 253-257, 319-323, 336-340, 353-357: a field's
\* onChange; choosing a preset other than custom empties customDuration, and
\* the customDuration input is rendered only under the custom preset
ChangeField(field, value) ==
  /\ policy # Null /\ edited < MaxEdits
  /\ field \in DOMAIN InitialFormData /\ value \in FieldValues(field)
  /\ field = "customDuration" => formData.durationPreset = "custom"
  /\ formData' =
       IF field = "durationPreset"
       THEN [formData EXCEPT !.durationPreset = value,
                             !.customDuration = IF value # "custom" THEN "" ELSE @]
       ELSE [formData EXCEPT ![field] = value]
  /\ edited' = edited + 1
  /\ UNCHANGED <<policyToDelete, licenseQuery, deletePolicy, policy, isSubmitting,
                 sent>>
  /\ UNCHANGED <<store, session, authVars, callVars, procs, reloads, formVars,
                 filterVars>>

\* line 136-146 with an empty trimmed name: the toast, and no request
SubmitWithoutName ==
  /\ policy # Null /\ ~isSubmitting /\ InputsValid(formData)
  /\ Truthy(accountId) /\ Truthy(adminToken)
  /\ Trim(formData.name) = ""
  /\ toast' = Str("Policy name is required")
  /\ UNCHANGED dialogVars
  /\ UNCHANGED <<store, session, authVars, callVars, procs, reloads, form, isLoading,
                 formRequest, formResponse, filterVars>>

\* line 136-185: handleSubmit up to the call of updateResource; the submit
\* button is disabled while isSubmitting (line 433)
handleSubmit ==
  /\ policy # Null /\ ~isSubmitting /\ InputsValid(formData)
  /\ Truthy(accountId) /\ Truthy(adminToken)
  /\ Trim(formData.name) # ""
  /\ Len(sent) < MaxSaves
  /\ isSubmitting' = TRUE
  /\ sent' = Append(sent, Attributes(formData))
  /\ UNCHANGED <<policyToDelete, licenseQuery, deletePolicy, policy, formData, edited>>
  /\ UNCHANGED <<store, session, authVars, callVars, procs, reloads, formVars,
                 filterVars>>

\* line 187-193: updateResource settles; onClose closes the dialog
UpdateSettles(ok) ==
  /\ isSubmitting
  /\ isSubmitting' = FALSE
  /\ policy' = IF ok THEN Null ELSE policy
  /\ toast' = IF ok THEN toast ELSE Str("Failed to update policy: Conflict")
  /\ UNCHANGED <<policyToDelete, licenseQuery, deletePolicy, formData, sent, edited>>
  /\ UNCHANGED <<store, session, authVars, callVars, procs, reloads, form, isLoading,
                 formRequest, formResponse, filterVars>>

\* line 199: onClose from the dialog's onOpenChange, or Cancel (line 428)
CloseEditDialog ==
  /\ policy # Null
  /\ policy' = Null
  /\ UNCHANGED <<policyToDelete, licenseQuery, deletePolicy, formData, isSubmitting,
                 sent, edited>>
  /\ UNCHANGED <<store, session, authVars, callVars, procs, reloads, formVars,
                 filterVars>>

EditNext ==
  \/ \E p \in Policies : OpenEditDialog(p)
  \/ \E field \in DOMAIN InitialFormData : \E value \in FieldValues(field) :
       ChangeField(field, value)
  \/ SubmitWithoutName
  \/ handleSubmit
  \/ \E ok \in BOOLEAN : UpdateSettles(ok)
  \/ CloseEditDialog

EditSpec == PoliciesInit /\ [][EditNext]_vars

\* this step sends an update request
C30_Sends == Len(sent') = Len(sent) + 1
C30_Numeric(a) == <<a.duration, a.maxMachines, a.maxProcesses, a.maxUses>>

\* C30: a save without any edit sends the policy's own duration, maxMachines,
\* maxProcesses and maxUses, and no request is sent while the trimmed name
\* is empty.
C30_SaveIsIdentity ==
  [][ C30_Sends =>
        /\ Trim(formData.name) # ""
        /\ edited = 0 => C30_Numeric(sent'[Len(sent')]) = C30_Numeric(policy.v) ]_vars

====
